---- MODULE Spec2Model ----
(***************************************************************************)
(* A model of src/unzip_files_then_clean.py: the ZIP extraction, Apple     *)
(* artifact cleaning and single-child directory reorganisation pipeline,   *)
(* its advisory run lock and its exit status.                              *)
(*                                                                         *)
(* Names are sequences of tokens.  The tokens ".", "/" and "_" stand for   *)
(* those characters; every other token stands for a run of characters      *)
(* holding none of the three, so prefix and substring tests on names are   *)
(* computed as the code computes them on strings.  A path is a sequence of *)
(* names relative to the target directory (the directory itself is <<>>).  *)
(***************************************************************************)
EXTENDS Integers, Sequences, FiniteSets, TLC

\* ------------------------------------------------------------------ bounds
\* MaxNodes: entries of the trees remove_apple_system_files and
\* reorganize_directories are called on.  MaxZips: archives in the target
\* directory.  MaxEntries, MainEntries, LockEntries, NoTtyEntries: entries
\* (archives included) of the target directory under SpecExtract, Spec,
\* SpecLock and SpecNoTty.
\* MaxFaults: OS failures (OSError) injected into one behaviour.
MaxNodes == 3
MaxZips == 2
MaxEntries == 3
MainEntries == 1
LockEntries == 1
NoTtyEntries == 2
ChainNodes == 4
MaxFaults == 1

\* ------------------------------------------------------------------ names
Last(s) == s[Len(s)]
StartsWith(s, pre) == Len(s) >= Len(pre) /\ SubSeq(s, 1, Len(pre)) = pre
EndsWith(s, suf) ==
    Len(s) >= Len(suf) /\ SubSeq(s, Len(s) - Len(suf) + 1, Len(s)) = suf

\* Whether the string sub occurs in the string s (Python's "sub in s").
Contains(s, sub) ==
    \E i \in 1..(Len(s) - Len(sub) + 1) : SubSeq(s, i, i + Len(sub) - 1) = sub

nmFoo == <<"foo">>
nmA == <<"a">>
nmB == <<"b">>
nmX == <<"x">>
nmEvil == <<"evil">>
nmDSStore == <<".", "DS", "_", "Store">>
nmDSStoreBak == <<".", "DS", "_", "Store", "_", "bak">>
nmSidecar == <<".", "_", "x">>
nmMACOSX == <<"_", "_", "MACOSX">>
ZipSuffix == <<".", "zip">>

\* APPLE_SYSTEM_FILES: the four literal names; the compiled pattern ^\._.*$
\* is ApplePattern.
APPLE_SYSTEM_FILES ==
    { nmDSStore,
      <<".", "_", ".", "DS", "_", "Store">>,
      <<".", "AppleDouble">>,
      <<".", "LSOverride">> }

ApplePattern(filename) == StartsWith(filename, <<".", "_">>)

APPLE_SYSTEM_DIRS ==
    { nmMACOSX,
      <<".", "_", "_", "MACOSX">>,
      <<".", "Spotlight-V100">>,
      <<".", "Trashes">>,
      <<".", "fseventsd">> }

\* is_apple_system_file: membership, then for each element of the set the
\* pattern's match or, for a literal, filename.startswith(literal).
is_apple_system_file(filename) ==
    \/ filename \in APPLE_SYSTEM_FILES
    \/ ApplePattern(filename)
    \/ \E lit \in APPLE_SYSTEM_FILES : StartsWith(filename, lit)

\* ------------------------------------------------------------ file system
\* A file system is a function from the paths that exist to their kind.
Kinds == {"dir", "file", "symlink", "fifo"}
EmptyFS == [p \in {} |-> "dir"]

IsUnder(q, p) == Len(q) > Len(p) /\ SubSeq(q, 1, Len(p)) = p
Exists(f, p) == p = <<>> \/ p \in DOMAIN f
IsDir(f, p) == p = <<>> \/ (p \in DOMAIN f /\ f[p] = "dir")
IsFile(f, p) == p \in DOMAIN f /\ f[p] = "file"
Descendants(f, p) == {q \in DOMAIN f : IsUnder(q, p)}
Children(f, p) == {q \in DOMAIN f : Len(q) = Len(p) + 1 /\ IsUnder(q, p)}
Restrict(f, D) == [q \in D |-> f[q]]

\* shutil.rmtree(p) / Path.unlink(p): p and everything under it are gone.
RmTree(f, p) == Restrict(f, DOMAIN f \ ({p} \cup Descendants(f, p)))
Unlink(f, p) == Restrict(f, DOMAIN f \ {p})
Put(f, p, k) == [q \in DOMAIN f \cup {p} |-> IF q = p THEN k ELSE f[q]]

\* ------------------------------------------------- remove_apple_system_files
\* One iteration of the loop over the sorted snapshot.  st is the triple the
\* function accumulates (the tree, files_removed, dirs_removed) plus the
\* number of ERROR entries it logged; bad is the set of paths whose deletion
\* the operating system refuses (OSError).
RmTreeFails(f, p, bad) == \E q \in bad : q \in DOMAIN f /\ (q = p \/ IsUnder(q, p))

\* A variant of the iteration without the two skips of lines 782-795: an
\* entry that is no directory is deleted by its name alone.
CleanStepNoSkip(st, p, bad) ==
    IF p \notin DOMAIN st.fs THEN st
    ELSE IF st.fs[p] = "dir" /\ Last(p) \in APPLE_SYSTEM_DIRS
    THEN IF RmTreeFails(st.fs, p, bad)
         THEN [st EXCEPT !.errs = @ + 1]
         ELSE [st EXCEPT !.fs = RmTree(@, p), !.dirs = @ + 1]
    ELSE IF st.fs[p] # "dir" /\ is_apple_system_file(Last(p))
    THEN IF p \in bad
         THEN [st EXCEPT !.errs = @ + 1]
         ELSE [st EXCEPT !.fs = Unlink(@, p), !.files = @ + 1]
    ELSE st

CleanStep(st, p, bad) ==
    IF p \notin DOMAIN st.fs THEN st                      \* not path.exists()
    ELSE IF st.fs[p] = "symlink" THEN st                  \* path.is_symlink()
    ELSE IF st.fs[p] = "fifo" THEN st                     \* socket, fifo, device
    ELSE IF st.fs[p] = "dir" /\ Last(p) \in APPLE_SYSTEM_DIRS
    THEN IF RmTreeFails(st.fs, p, bad)
         THEN [st EXCEPT !.errs = @ + 1]
         ELSE [st EXCEPT !.fs = RmTree(@, p), !.dirs = @ + 1]
    ELSE IF st.fs[p] = "file" /\ is_apple_system_file(Last(p))
    THEN IF p \in bad
         THEN [st EXCEPT !.errs = @ + 1]
         ELSE [st EXCEPT !.fs = Unlink(@, p), !.files = @ + 1]
    ELSE st

\* The plausible slip of one try block around the whole loop: the scan
\* stops at the first deletion that fails.
RECURSIVE CleanLoopAbortOnError(_, _, _)
CleanLoopAbortOnError(st, todo, bad) ==
    IF todo = {} \/ st.errs > 0 THEN st
    ELSE LET p == CHOOSE q \in todo : \A r \in todo : Len(q) >= Len(r)
         IN CleanLoopAbortOnError(CleanStep(st, p, bad), todo \ {p}, bad)

\* The loop: the snapshot directory.glob("**/*") sorted by depth, deepest
\* first (entries of equal depth lie in disjoint subtrees, so their mutual
\* order does not change the result).
RECURSIVE CleanLoop(_, _, _)
CleanLoop(st, todo, bad) ==
    IF todo = {} THEN st
    ELSE LET p == CHOOSE q \in todo : \A r \in todo : Len(q) >= Len(r)
         IN CleanLoop(CleanStep(st, p, bad), todo \ {p}, bad)

\* The plausible slip "return inside the loop": the scan stops after the
\* first entry it removed.
RECURSIVE CleanLoopFirstOnly(_, _, _)
CleanLoopFirstOnly(st, todo, bad) ==
    IF todo = {} \/ st.files + st.dirs > 0 THEN st
    ELSE LET p == CHOOSE q \in todo : \A r \in todo : Len(q) >= Len(r)
         IN CleanLoopFirstOnly(CleanStep(st, p, bad), todo \ {p}, bad)

remove_apple_system_files_FirstOnly(f, directory, bad) ==
    CleanLoopFirstOnly([fs |-> f, files |-> 0, dirs |-> 0, errs |-> 0],
                       Descendants(f, directory), bad)

remove_apple_system_files(f, directory, bad) ==
    CleanLoop([fs |-> f, files |-> 0, dirs |-> 0, errs |-> 0],
              Descendants(f, directory), bad)

\* The paths whose removal remove_apple_system_files attempts on f.
Artifacts(f, directory) ==
    {p \in Descendants(f, directory) :
        \/ f[p] = "dir" /\ Last(p) \in APPLE_SYSTEM_DIRS
        \/ f[p] = "file" /\ is_apple_system_file(Last(p))}

\* ------------------------------------------------------------- archives
\* An archive member: its stored filename (a string, "/" separated), whether
\* its CRC matches and whether bit 0 of flag_bits (encrypted) is set.
Member(fn) == [fn |-> fn, crc_ok |-> TRUE, enc |-> FALSE]
BadMember(fn) == [fn |-> fn, crc_ok |-> FALSE, enc |-> FALSE]
EncMember(fn) == [fn |-> fn, crc_ok |-> TRUE, enc |-> TRUE]

\* An archive file: valid (zipfile.ZipFile can open it), its size in units of
\* the default ceiling's half, and its members in central-directory order.
Zip(entries) == [valid |-> TRUE, size |-> 1, entries |-> entries]

fnX == nmX
fnJunk == nmMACOSX \o <<"/">> \o nmSidecar                \* __MACOSX/._x
fnFooX == nmFoo \o <<"/">> \o nmX                          \* foo/x
fnLeading == <<".", ".", "/">> \o nmEvil                   \* ../evil
fnMiddle == nmA \o <<"/", ".", ".", "/">> \o nmB           \* a/../b
fnTrailing == nmA \o <<"/", ".", ".">>                     \* a/..
fnAbsolute == <<"/">> \o nmEvil                            \* /evil
fnDotted == nmA \o <<".", ".", "/">> \o nmB                \* a../b

\* The archives the environment may put in the target directory.
ArchiveKinds ==
    { Zip(<<Member(fnX)>>),
      Zip(<<Member(fnJunk), Member(fnX)>>),
      Zip(<<Member(nmDSStore)>>),
      Zip(<<>>),
      Zip(<<Member(fnFooX)>>),
      Zip(<<BadMember(fnX)>>),
      Zip(<<EncMember(fnX)>>),
      Zip(<<Member(fnX), Member(fnLeading)>>),
      Zip(<<Member(fnMiddle)>>),
      Zip(<<Member(fnX), Member(fnTrailing)>>),
      Zip(<<Member(fnAbsolute)>>),
      Zip(<<Member(fnDotted)>>),
      [Zip(<<Member(fnX)>>) EXCEPT !.size = 3],
      [Zip(<<>>) EXCEPT !.valid = FALSE] }

\* What foo.zip, there to follow or precede a.zip, holds.
SecondKinds ==
    { Zip(<<Member(fnX)>>),
      Zip(<<Member(fnFooX)>>),
      Zip(<<BadMember(fnX)>>) }

\* What either archive holds when two runs share the target directory.
LockKinds ==
    { Zip(<<Member(fnFooX)>>),
      Zip(<<BadMember(fnX)>>) }

ZipStems == {nmA, nmFoo}
ZipName(stem) == stem \o ZipSuffix
\* Path.stem of a name matching *.zip: the name without its last suffix.
Stem(name) == SubSeq(name, 1, Len(name) - Len(ZipSuffix))
\* source_dir.glob("*.zip"): the entries of the directory whose name ends
\* in ".zip", of whatever kind.
GlobZip(f) == {Last(p) : p \in {q \in Children(f, <<>>) : EndsWith(Last(q), ZipSuffix)}}

\* ZipFile.testzip: reads the members in order; opening an encrypted member
\* without a password raises RuntimeError, a CRC mismatch makes it return
\* that member's name.
RECURSIVE testzip(_)
testzip(entries) ==
    IF entries = <<>> THEN "ok"
    ELSE IF Head(entries).enc THEN "raise"
    ELSE IF ~Head(entries).crc_ok THEN "corrupted"
    ELSE testzip(Tail(entries))

AnyEncrypted(entries) == \E i \in 1..Len(entries) : entries[i].enc

\* os.path.isabs(info.filename) or "../" in info.filename
IsAbs(fn) == Len(fn) > 0 /\ fn[1] = "/"
UnsafePath(fn) == IsAbs(fn) \/ Contains(fn, <<".", ".", "/">>)
AnyUnsafe(entries) == \E i \in 1..Len(entries) : UnsafePath(entries[i].fn)

\* str.split("/")
RECURSIVE SplitAcc(_, _)
SplitAcc(fn, acc) ==
    IF fn = <<>> THEN <<acc>>
    ELSE IF Head(fn) = "/" THEN <<acc>> \o SplitAcc(Tail(fn), <<>>)
    ELSE SplitAcc(Tail(fn), Append(acc, Head(fn)))
Split(fn) == SplitAcc(fn, <<>>)

\* A path segment that is "..": what a traversal segment is.
HasTraversalSegment(fn) == \E i \in 1..Len(Split(fn)) : Split(fn)[i] = <<".", ".">>

\* ZipFile._extract_member's sanitising: the components that are empty, "."
\* or ".." are dropped and the rest is joined below the destination.
InvalidPathParts == {<<>>, <<".">>, <<".", ".">>}
RECURSIVE DropInvalid(_)
DropInvalid(parts) ==
    IF parts = <<>> THEN <<>>
    ELSE IF Head(parts) \in InvalidPathParts THEN DropInvalid(Tail(parts))
    ELSE <<Head(parts)>> \o DropInvalid(Tail(parts))
MemberTarget(dest, fn) == dest \o DropInvalid(Split(fn))
MemberIsDir(fn) == Len(fn) > 0 /\ Last(fn) = "/"

\* os.makedirs of the missing ancestors of target below dest.
Ancestors(dest, target) ==
    {SubSeq(target, 1, n) : n \in (Len(dest) + 1)..(Len(target) - 1)}
MakeDirs(f, ps) == [q \in DOMAIN f \cup ps |-> IF q \in DOMAIN f THEN f[q] ELSE "dir"]

\* ZipFile._extract_member: [fs, ok]; ok is FALSE when the write raises.
ExtractMember(f, dest, fn) ==
    LET target == MemberTarget(dest, fn)
        ups == Ancestors(dest, target)
        blocked == \E a \in ups : a \in DOMAIN f /\ f[a] # "dir"
    IN  IF blocked THEN [fs |-> f, ok |-> FALSE]
        ELSE IF MemberIsDir(fn)
        THEN IF IsDir(f, target) THEN [fs |-> MakeDirs(f, ups), ok |-> TRUE]
             ELSE IF Exists(f, target) THEN [fs |-> MakeDirs(f, ups), ok |-> FALSE]
             ELSE [fs |-> Put(MakeDirs(f, ups), target, "dir"), ok |-> TRUE]
        ELSE IF IsDir(f, target) THEN [fs |-> MakeDirs(f, ups), ok |-> FALSE]
        ELSE [fs |-> Put(MakeDirs(f, ups), target, "file"), ok |-> TRUE]

\* ZipFile.extractall(dest): the members in order, to the first failure.
\* failAt = k > 0 makes the write of member k fail (disk full, permission).
RECURSIVE ExtractFrom(_, _, _, _, _)
ExtractFrom(f, dest, entries, k, failAt) ==
    IF k > Len(entries) THEN [fs |-> f, ok |-> TRUE, inj |-> FALSE]
    ELSE IF k = failAt THEN [fs |-> f, ok |-> FALSE, inj |-> TRUE]
    ELSE LET r == ExtractMember(f, dest, entries[k].fn)
         IN  IF r.ok THEN ExtractFrom(r.fs, dest, entries, k + 1, failAt)
             ELSE [fs |-> r.fs, ok |-> FALSE, inj |-> FALSE]
extractall(f, dest, entries, failAt) == ExtractFrom(f, dest, entries, 1, failAt)

\* ---------------------------------------------------------- OperationStats
\* The counters of OperationStats; of the log only the numbers of WARNING and
\* ERROR entries that add_log keeps (warnings, errors) are carried.
Stats0 ==
    [total_zips |-> 0, successful_extractions |-> 0, failed_extractions |-> 0,
     files_removed |-> 0, dirs_removed |-> 0, dirs_examined |-> 0,
     dirs_reorganized |-> 0, dirs_ignored |-> 0, warnings |-> 0, errors |-> 0]

\* add_log(message, LogLevel.WARNING) and add_log(message, LogLevel.ERROR)
LogWarning(st) == [st EXCEPT !.warnings = @ + 1]
LogError(st) == [st EXCEPT !.errors = @ + 1]
LogErrors(st, n) == [st EXCEPT !.errors = @ + n]
Failed(st) == [st EXCEPT !.failed_extractions = @ + 1]
IgnoredUncounted(st) == st
Ignored(st) == [st EXCEPT !.dirs_ignored = @ + 1]
Cleaned(st, c) ==
    [st EXCEPT !.files_removed = @ + c.files, !.dirs_removed = @ + c.dirs,
               !.errors = @ + c.errs]

\* A variant whose default is True: without a terminal every question is
\* answered yes.
get_user_confirmation_DefaultYes(st, tty, ans) ==
    [stats |-> IF tty THEN st ELSE LogWarning(st), yes |-> ~tty \/ ans]

\* get_user_confirmation(prompt, default=False, stats): without a terminal a
\* WARNING is logged and the default is returned; with one, the operator's
\* answer ans.
get_user_confirmation(st, tty, ans) ==
    [stats |-> IF tty THEN st ELSE LogWarning(st), yes |-> tty /\ ans]

\* is_path_too_long: FALSE except on Windows for a path of over 259
\* characters (long), where it logs a WARNING.
is_path_too_long(os_name, long) == os_name = "nt" /\ long

MAX_ZIP_SIZE == 2

\* ------------------------------------------------------- extract_zip_files
\* What the environment decides during one step is passed as inp: long (the
\* path is over the Windows limit), faults (the OS calls that raise OSError),
\* failAt (the member whose write fails, 0 for none), bad (the artifacts whose
\* deletion fails) and the operator's answers to the prompts.  A result holds
\* the tree, the statistics, out (the branch that ended the step, "go" when
\* the next step of the iteration is to run) and used, the number of injected
\* failures that took effect.
Hit(inp, call) == call \in inp.faults
Outcome(f, st, out, used) == [fs |-> f, stats |-> st, out |-> out, used |-> used]

\* A variant of the step below that clears the destination before it asks.
PrepareDestClearFirst(f, st, z, a, e, inp, used) ==
    LET dest == <<Stem(z)>>
        ask == get_user_confirmation(LogWarning(st), e.tty, inp.over)
    IN  IF Exists(f, dest) /\ ~a.no_confirm /\ ~ask.yes
        THEN Outcome(RmTree(f, dest), Failed(ask.stats), "declined", used)
        ELSE IF Exists(f, dest) /\ IsDir(f, dest) /\ ~Hit(inp, "rmtree") /\ ~Hit(inp, "mkdir")
        THEN Outcome(Put(RmTree(f, dest), dest, "dir"),
                     IF a.no_confirm THEN LogWarning(st) ELSE ask.stats, "go", used)
        ELSE IF Exists(f, dest)
        THEN Outcome(f, Failed(LogError(LogWarning(st))), "clear_failed", used)
        ELSE Outcome(Put(f, dest, "dir"), st, "go", used)

\* Lines 880-904: an existing destination is cleared after consent, then the
\* destination directory is created.
PrepareDest(f, st, z, a, e, inp, used) ==
    LET dest == <<Stem(z)>>
    IN  IF Exists(f, dest)
        THEN LET ask == get_user_confirmation(LogWarning(st), e.tty, inp.over)
             IN  IF ~a.no_confirm /\ ~ask.yes
                 THEN Outcome(f, Failed(ask.stats), "declined", used)
                 ELSE LET st2 == IF a.no_confirm THEN LogWarning(st) ELSE ask.stats
                      IN  IF ~IsDir(f, dest)
                          THEN Outcome(f, Failed(LogError(st2)), "clear_failed", used)
                          ELSE IF Hit(inp, "rmtree")
                          THEN Outcome(f, Failed(LogError(st2)), "clear_failed", used + 1)
                          ELSE IF Hit(inp, "mkdir")
                          THEN Outcome(RmTree(f, dest), Failed(LogError(st2)),
                                       "mkdir_failed", used + 1)
                          ELSE Outcome(Put(RmTree(f, dest), dest, "dir"), st2, "go", used)
        ELSE IF Hit(inp, "mkdir")
        THEN Outcome(f, Failed(LogError(st)), "mkdir_failed", used + 1)
        ELSE Outcome(Put(f, dest, "dir"), st, "go", used)

\* A variant of the step below that never compares the size with the ceiling.
PrepareNoSizeCheck(f, st0, z, zc, a, e, inp) ==
    LET st == [st0 EXCEPT !.total_zips = @ + 1]
    IN  IF is_path_too_long(e.os_name, inp.long)
        THEN Outcome(f, Failed(LogError(LogWarning(st))), "too_long", 0)
        ELSE IF ~Exists(f, <<z>>)
        THEN Outcome(f, Failed(LogError(st)), "stat_failed", 0)
        ELSE IF Hit(inp, "stat")
        THEN Outcome(f, Failed(LogError(st)), "stat_failed", 1)
        ELSE PrepareDest(f, st, z, a, e, inp, 0)

\* Lines 849-904: the loop body for archive z up to the creation of the
\* destination directory.
Prepare(f, st0, z, zc, a, e, inp) ==
    LET st == [st0 EXCEPT !.total_zips = @ + 1]
    IN  IF is_path_too_long(e.os_name, inp.long)
        THEN Outcome(f, Failed(LogError(LogWarning(st))), "too_long", 0)
        ELSE IF ~Exists(f, <<z>>)
        THEN Outcome(f, Failed(LogError(st)), "stat_failed", 0)
        ELSE IF Hit(inp, "stat")
        THEN Outcome(f, Failed(LogError(st)), "stat_failed", 1)
        ELSE IF zc.size > a.max_size
        THEN LET ask == get_user_confirmation(LogWarning(st), e.tty, inp.big)
             IN  IF ~a.no_confirm /\ ~ask.yes
                 THEN Outcome(f, Failed(ask.stats), "too_large", 0)
                 ELSE PrepareDest(f, IF a.no_confirm THEN LogWarning(st) ELSE ask.stats,
                                  z, a, e, inp, 0)
        ELSE PrepareDest(f, st, z, a, e, inp, 0)

\* A handler that logs and counts but leaves the destination in place.
HandlerNoRemove(f, st, dest, inp, out, used) ==
    Outcome(f, Failed(LogError(st)), out, used)

\* A handler that removes the archive along with the destination.
HandlerRemovesArchive(f, st, dest, inp, out, used) ==
    IF ~IsDir(f, dest)
    THEN Outcome(f, LogWarning(Failed(LogError(st))), "removal_failed", used)
    ELSE IF Hit(inp, "rmtree")
    THEN Outcome(f, LogWarning(Failed(LogError(st))), "removal_failed", used + 1)
    ELSE Outcome(RmTree(RmTree(f, dest), <<ZipName(Last(dest))>>), Failed(LogError(st)),
                 out, used)

\* Lines 964-981, either handler of the try block: an ERROR entry,
\* failed_extractions += 1, then shutil.rmtree(dest_dir), whose own failure is
\* logged as a WARNING; the iteration then ends as "removal_failed".
Handler(f, st, dest, inp, out, used) ==
    IF ~IsDir(f, dest)
    THEN Outcome(f, LogWarning(Failed(LogError(st))), "removal_failed", used)
    ELSE IF Hit(inp, "rmtree")
    THEN Outcome(f, LogWarning(Failed(LogError(st))), "removal_failed", used + 1)
    ELSE Outcome(RmTree(f, dest), Failed(LogError(st)), out, used)

\* A variant of the step below that writes the members as soon as the archive
\* is open, before the three checks.
ValidateAfterWriting(f, st, z, zc, a, e, inp) ==
    LET dest == <<Stem(z)>>
        g == extractall(f, dest, zc.entries, 0).fs
    IN  IF ~IsFile(f, <<z>>)
        THEN Handler(f, st, dest, inp, "open_failed", 0)
        ELSE IF Hit(inp, "open")
        THEN Handler(f, st, dest, inp, "open_failed", 1)
        ELSE IF ~zc.valid
        THEN Handler(f, st, dest, inp, "bad_zip", 0)
        ELSE IF testzip(zc.entries) = "raise"
        THEN Handler(g, st, dest, inp, "testzip_raised", 0)
        ELSE IF testzip(zc.entries) = "corrupted"
        THEN Outcome(g, Failed(LogError(st)), "corrupted", 0)
        ELSE LET ask == get_user_confirmation(LogWarning(st), e.tty, inp.enc)
                 enc == AnyEncrypted(zc.entries)
                 st2 == IF ~enc THEN st
                        ELSE IF a.no_confirm THEN LogWarning(st) ELSE ask.stats
             IN  IF enc /\ ~a.no_confirm /\ ~ask.yes
                 THEN Outcome(g, Failed(ask.stats), "encrypted_declined", 0)
                 ELSE IF AnyUnsafe(zc.entries)
                 THEN Handler(g, Failed(LogError(st2)), dest, inp, "unsafe", 0)
                 ELSE Outcome(g, st2, "go", 0)

\* Lines 906-939: zipfile.ZipFile(zip_file), testzip, the encryption check and
\* the path check.  out = "go" when extractall is next.
Validate(f, st, z, zc, a, e, inp) ==
    LET dest == <<Stem(z)>>
    IN  IF ~IsFile(f, <<z>>)
        THEN Handler(f, st, dest, inp, "open_failed", 0)
        ELSE IF Hit(inp, "open")
        THEN Handler(f, st, dest, inp, "open_failed", 1)
        ELSE IF ~zc.valid
        THEN Handler(f, st, dest, inp, "bad_zip", 0)
        ELSE IF testzip(zc.entries) = "raise"
        THEN Handler(f, st, dest, inp, "testzip_raised", 0)
        ELSE IF testzip(zc.entries) = "corrupted"
        THEN Outcome(f, Failed(LogError(st)), "corrupted", 0)
        ELSE LET ask == get_user_confirmation(LogWarning(st), e.tty, inp.enc)
                 enc == AnyEncrypted(zc.entries)
                 st2 == IF ~enc THEN st
                        ELSE IF a.no_confirm THEN LogWarning(st) ELSE ask.stats
             IN  IF enc /\ ~a.no_confirm /\ ~ask.yes
                 THEN Outcome(f, Failed(ask.stats), "encrypted_declined", 0)
                 ELSE IF AnyUnsafe(zc.entries)
                 THEN Handler(f, Failed(LogError(st2)), dest, inp, "unsafe", 0)
                 ELSE Outcome(f, st2, "go", 0)

\* Line 952, any(dest_dir.iterdir()): the destination has an entry; and the
\* test left out.
HasContentAlways(f, dest) == TRUE
HasContent(f, dest) == Children(f, dest) # {}

\* A variant of the step below that removes the destination it found empty.
FinishRemovesEmpty(f, st, z, zc, inp) ==
    LET dest == <<Stem(z)>>
        ex == extractall(f, dest, zc.entries, inp.failAt)
        c == remove_apple_system_files(ex.fs, dest, inp.bad)
        st2 == Cleaned(st, c)
        n == Cardinality(inp.bad)
    IN  IF ~ex.ok
        THEN Handler(ex.fs, st, dest, inp, "extract_failed", IF ex.inj THEN 1 ELSE 0)
        ELSE IF Hit(inp, "iterdir")
        THEN Handler(c.fs, st2, dest, inp, "iterdir_failed", n + 1)
        ELSE IF HasContent(c.fs, dest)
        THEN IF ~Exists(c.fs, <<z>>)
             THEN Outcome(c.fs, Failed(LogError(st2)), "unlink_failed", n)
             ELSE IF Hit(inp, "unlink")
             THEN Outcome(c.fs, Failed(LogError(st2)), "unlink_failed", n + 1)
             ELSE Outcome(Unlink(c.fs, <<z>>),
                          [st2 EXCEPT !.successful_extractions = @ + 1], "ok", n)
        ELSE Outcome(RmTree(c.fs, dest), Failed(LogError(st2)), "empty", n)

\* Lines 942-962: extractall, the cleaning of the destination, the emptiness
\* check and the removal of the archive.
Finish(f, st, z, zc, inp) ==
    LET dest == <<Stem(z)>>
        ex == extractall(f, dest, zc.entries, inp.failAt)
        c == remove_apple_system_files(ex.fs, dest, inp.bad)
        st2 == Cleaned(st, c)
        n == Cardinality(inp.bad)
    IN  IF ~ex.ok
        THEN Handler(ex.fs, st, dest, inp, "extract_failed", IF ex.inj THEN 1 ELSE 0)
        ELSE IF Hit(inp, "iterdir")
        THEN Handler(c.fs, st2, dest, inp, "iterdir_failed", n + 1)
        ELSE IF HasContent(c.fs, dest)
        THEN IF ~Exists(c.fs, <<z>>)
             THEN Outcome(c.fs, Failed(LogError(st2)), "unlink_failed", n)
             ELSE IF Hit(inp, "unlink")
             THEN Outcome(c.fs, Failed(LogError(st2)), "unlink_failed", n + 1)
             ELSE Outcome(Unlink(c.fs, <<z>>),
                          [st2 EXCEPT !.successful_extractions = @ + 1], "ok", n)
        ELSE Outcome(c.fs, Failed(LogError(st2)), "empty", n)

\* -------------------------------------------------- reorganize_directories
\* find_single_child_dirs' test on one entry P of the target directory, made
\* when the generator reaches P: P is a directory whose listing is exactly
\* one entry, a directory.
Candidate(f, P) ==
    /\ IsDir(f, <<P>>)
    /\ Cardinality(Children(f, <<P>>)) = 1
    /\ \A c \in Children(f, <<P>>) : f[c] = "dir"

\* shutil.move(src, dst's parent): src and what is under it reappear at dst.
Move(f, src, dst) ==
    LET moved == {src} \cup Descendants(f, src)
        rest == DOMAIN f \ moved
        New(q) == dst \o SubSeq(q, Len(src) + 1, Len(q))
        Old(q) == src \o SubSeq(q, Len(dst) + 1, Len(q))
    IN  [q \in rest \cup {New(m) : m \in moved} |->
            IF q \in rest THEN f[q] ELSE f[Old(q)]]

\* Lines 1066-1077: the parent is removed when it is empty.
RemoveParent(f, st, P, inp, used) ==
    IF ~IsDir(f, <<P>>)
    THEN Outcome(f, Ignored(LogError(st)), "rmdir_failed", used)
    ELSE IF Children(f, <<P>>) = {}
    THEN IF Hit(inp, "rmdir")
         THEN Outcome(f, Ignored(LogError(st)), "rmdir_failed", used + 1)
         ELSE Outcome(Unlink(f, <<P>>),
                      [st EXCEPT !.dirs_reorganized = @ + 1], "ok", used)
    ELSE Outcome(f, Ignored(LogWarning(st)), "not_empty", used)

\* Lines 1056-1064: the child is moved into the target directory.
MoveChild(f, st, P, child, inp, used) ==
    LET target == <<Last(child)>>
    IN  IF ~Exists(f, child) \/ Exists(f, target)
        THEN Outcome(f, Ignored(LogError(st)), "move_failed", used)
        ELSE IF Hit(inp, "move")
        THEN Outcome(f, Ignored(LogError(st)), "move_failed", used + 1)
        ELSE RemoveParent(Move(f, child, target), st, P, inp, used)

\* Lines 1021-1077: the loop body for the pair (P, its only child).
ReorgPair(f, st0, P, a, e, inp) ==
    LET child == CHOOSE c \in Children(f, <<P>>) : TRUE
        target == <<Last(child)>>
        c == remove_apple_system_files(f, <<P>>, inp.bad)
        st == Cleaned([st0 EXCEPT !.dirs_examined = @ + 1], c)
        n == Cardinality(inp.bad)
    IN  IF is_path_too_long(e.os_name, inp.long)
        THEN Outcome(c.fs, Ignored(LogError(LogWarning(st))), "too_long", n)
        ELSE IF Exists(c.fs, target) /\ target # child
        THEN LET ask == get_user_confirmation(LogWarning(st), e.tty, inp.over)
                 st2 == IF a.no_confirm THEN LogWarning(st) ELSE ask.stats
             IN  IF ~a.no_confirm /\ ~ask.yes
                 THEN Outcome(c.fs, Ignored(ask.stats), "declined", n)
                 ELSE IF ~IsDir(c.fs, target)
                 THEN Outcome(c.fs, Ignored(LogError(st2)), "clear_failed", n)
                 ELSE IF Hit(inp, "rmtree")
                 THEN Outcome(c.fs, Ignored(LogError(st2)), "clear_failed", n + 1)
                 ELSE MoveChild(RmTree(c.fs, target), st2, P, child, inp, n)
        ELSE MoveChild(c.fs, st, P, child, inp, n)

\* ------------------------------------------------------------------ state
VARIABLES
    fs,          \* the tree under the target directory
    fs0,         \* the tree when the operation under study started
    zipContent,  \* archive name -> what the archive file holds
    env,         \* os_name, tty (stdin.isatty()), lockable, root (the state
                 \* of the target directory itself)
    args,        \* per run: no_confirm, clean_only, max_size, entry (the
                 \* function the run calls: main, extract_zip_files,
                 \* reorganize, clean_call)
    mode,        \* "setup" while the environment builds the tree, then "run"
    pc,          \* per run: where the run is
    stats,       \* per run: its OperationStats
    lock_fd,     \* per run: "none", or "fd" once acquire_lock returned one
    fdOpen,      \* per run: whether that descriptor is still open
    lockOwner,   \* the run holding the flock on the sentinel file, 0 if free
    zips,        \* per run: archives of the glob snapshot not yet processed
    cur,         \* per run: the archive being processed, <<>> if none
    outcome,     \* per run: archive -> the branch that ended its iteration
    parents,     \* per run: entries of the iterdir snapshot not yet visited
    pairs,       \* per run: parent -> the branch that ended its iteration
    rc,          \* per run: main's return value, -1 before it returns
    ret,         \* per run: the values returned by direct calls of
                 \* remove_apple_system_files
    faults       \* per run: the OS failures injected so far

envVars == <<zipContent, env, args, fs0, mode>>
lockVars == <<lock_fd, fdOpen, lockOwner>>
zipVars == <<zips, cur, outcome>>
dirVars == <<parents, pairs>>
vars == <<fs, fs0, zipContent, env, args, mode, pc, stats, lock_fd, fdOpen,
          lockOwner, zips, cur, outcome, parents, pairs, rc, ret, faults>>

Runs == {1, 2}
NoMap == [x \in {} |-> ""]
Env0 == [os_name |-> "posix", tty |-> FALSE, lockable |-> TRUE, root |-> "dir"]
Args0 == [no_confirm |-> FALSE, clean_only |-> FALSE, max_size |-> MAX_ZIP_SIZE,
          entry |-> "main"]

Init ==
    /\ fs = EmptyFS
    /\ fs0 = EmptyFS
    /\ zipContent = NoMap
    /\ env = Env0
    /\ args = [r \in Runs |-> Args0]
    /\ mode = "setup"
    /\ pc = [r \in Runs |-> "idle"]
    /\ stats = [r \in Runs |-> Stats0]
    /\ lock_fd = [r \in Runs |-> "none"]
    /\ fdOpen = [r \in Runs |-> FALSE]
    /\ lockOwner = 0
    /\ zips = [r \in Runs |-> {}]
    /\ cur = [r \in Runs |-> <<>>]
    /\ outcome = [r \in Runs |-> NoMap]
    /\ parents = [r \in Runs |-> {}]
    /\ pairs = [r \in Runs |-> NoMap]
    /\ rc = [r \in Runs |-> -1]
    /\ ret = [r \in Runs |-> <<>>]
    /\ faults = [r \in Runs |-> 0]

\* ------------------------------------------------------------ environment
\* The environment builds the tree the program will find: an entry named n
\* of kind k under the target directory or under a directory already there.
SetupNode(names, kinds, limit) ==
    /\ mode = "setup"
    /\ Cardinality(DOMAIN fs) < limit
    /\ \E d \in {<<>>} \cup {q \in DOMAIN fs : fs[q] = "dir"}, n \in names, k \in kinds :
          /\ d \o <<n>> \notin DOMAIN fs
          /\ fs' = Put(fs, d \o <<n>>, k)
    /\ UNCHANGED <<fs0, zipContent, env, args, mode, pc, stats, lock_fd, fdOpen,
                   lockOwner, zips, cur, outcome, parents, pairs, rc, ret, faults>>

\* An archive file: a.zip holding one of first, or foo.zip holding one of
\* second.
SetupZip(limit, first, second) ==
    /\ mode = "setup"
    /\ Cardinality(DOMAIN fs) < limit
    /\ Cardinality(DOMAIN zipContent) < MaxZips
    /\ \E stem \in ZipStems, zc \in first \cup second :
          /\ zc \in (IF stem = nmA THEN first ELSE second)
          /\ <<ZipName(stem)>> \notin DOMAIN fs
          /\ fs' = Put(fs, <<ZipName(stem)>>, "file")
          /\ zipContent' = [z \in DOMAIN zipContent \cup {ZipName(stem)} |->
                               IF z = ZipName(stem) THEN zc ELSE zipContent[z]]
    /\ UNCHANGED <<fs0, env, args, mode, pc, stats, lock_fd, fdOpen,
                   lockOwner, zips, cur, outcome, parents, pairs, rc, ret, faults>>

\* The program starts: every run of rs enters the function its arguments
\* name.
Begin(rs, e, as) ==
    /\ mode = "setup"
    /\ mode' = "run"
    /\ fs0' = fs
    /\ env' = e
    /\ args' = as
    /\ pc' = [r \in Runs |-> IF r \in rs THEN as[r].entry ELSE "idle"]
    /\ UNCHANGED <<fs, zipContent, stats, lock_fd, fdOpen, lockOwner, zips, cur,
                   outcome, parents, pairs, rc, ret, faults>>

\* The failures the environment may still inject: MaxFaults over the runs of
\* a behaviour.
RECURSIVE Sum(_, _)
Sum(g, D) == IF D = {} THEN 0 ELSE LET x == CHOOSE y \in D : TRUE IN g[x] + Sum(g, D \ {x})
Budget(r) == MaxFaults - Sum(faults, Runs)
FaultSets(r, calls) == {F \in SUBSET calls : Cardinality(F) <= Budget(r)}
BadSets(r, f, directory) ==
    {B \in SUBSET Artifacts(f, directory) : Cardinality(B) <= Budget(r)}
Answers == BOOLEAN
Longs == IF env.os_name = "nt" THEN BOOLEAN ELSE {FALSE}

\* ------------------------------------------------------------------- main
\* Lines 1178-1226: the target directory is resolved and validated.  A path
\* that cannot be resolved returns 1 before any statistics exist; the four
\* failed checks log an ERROR and return 1.
ValidateDir(r) ==
    /\ mode = "run" /\ pc[r] = "main"
    /\ IF env.root = "dir"
       THEN /\ pc' = [pc EXCEPT ![r] = "acquire"]
            /\ UNCHANGED <<stats, rc>>
       ELSE /\ pc' = [pc EXCEPT ![r] = "returned"]
            /\ rc' = [rc EXCEPT ![r] = 1]
            /\ stats' = [stats EXCEPT ![r] =
                            IF env.root = "unresolved" THEN @ ELSE LogError(@)]
    /\ UNCHANGED <<fs, envVars, lockVars, zipVars, dirVars, ret, faults>>

\* fcntl.flock(lock_fd, LOCK_EX) returns once no other open file description
\* holds the lock on the sentinel file.
flock_NoWait(owner, r) == TRUE
flock_granted(owner, r) == owner = 0

\* Lines 708-715 and 1232: acquire_lock returns a descriptor.
AcquireLock(r) ==
    /\ mode = "run" /\ pc[r] = "acquire"
    /\ env.lockable
    /\ flock_granted(lockOwner, r)
    /\ lockOwner' = r
    /\ lock_fd' = [lock_fd EXCEPT ![r] = "fd"]
    /\ fdOpen' = [fdOpen EXCEPT ![r] = TRUE]
    /\ pc' = [pc EXCEPT ![r] = "try"]
    /\ UNCHANGED <<fs, envVars, stats, zipVars, dirVars, rc, ret, faults>>

\* Lines 723-724 and 1232-1238: acquire_lock failed and returned None.
NoLock(r) ==
    /\ mode = "run" /\ pc[r] = "acquire"
    /\ ~env.lockable
    /\ \E ans \in Answers :
          LET ask == get_user_confirmation(LogWarning(stats[r]), env.tty, ans)
          IN  IF args[r].no_confirm
              THEN /\ pc' = [pc EXCEPT ![r] = "try"]
                   /\ UNCHANGED <<stats, rc>>
              ELSE /\ stats' = [stats EXCEPT ![r] = ask.stats]
                   /\ IF ask.yes
                      THEN /\ pc' = [pc EXCEPT ![r] = "try"]
                           /\ UNCHANGED rc
                      ELSE /\ pc' = [pc EXCEPT ![r] = "returned"]
                           /\ rc' = [rc EXCEPT ![r] = 1]
    /\ UNCHANGED <<fs, envVars, lockVars, zipVars, dirVars, ret, faults>>

\* Lines 1242-1250: clean-only mode.
CleanOnly(r) ==
    /\ mode = "run" /\ pc[r] = "try"
    /\ args[r].clean_only
    /\ \E bad \in BadSets(r, fs, <<>>) :
          LET c == remove_apple_system_files(fs, <<>>, bad)
          IN  /\ fs' = c.fs
              /\ stats' = [stats EXCEPT ![r] =
                              [@ EXCEPT !.files_removed = c.files,
                                        !.dirs_removed = c.dirs,
                                        !.errors = @ + c.errs]]
              /\ faults' = [faults EXCEPT ![r] = @ + Cardinality(bad)]
    /\ pc' = [pc EXCEPT ![r] = "report"]
    /\ UNCHANGED <<envVars, lockVars, zipVars, dirVars, rc, ret>>

\* Line 848: the glob snapshot of extract_zip_files.
ExtractStart(r) ==
    /\ mode = "run" /\ pc[r] = "try"
    /\ ~args[r].clean_only
    /\ zips' = [zips EXCEPT ![r] = GlobZip(fs)]
    /\ pc' = [pc EXCEPT ![r] = "extract"]
    /\ UNCHANGED <<fs, envVars, lockVars, stats, cur, outcome, dirVars, rc, ret, faults>>

\* Line 848: extract_zip_files called on its own takes its glob snapshot.
ExtractCall(r) ==
    /\ mode = "run" /\ pc[r] = "extract_zip_files"
    /\ zips' = [zips EXCEPT ![r] = GlobZip(fs)]
    /\ pc' = [pc EXCEPT ![r] = "extract"]
    /\ UNCHANGED <<fs, envVars, lockVars, stats, cur, outcome, dirVars, rc, ret, faults>>

\* A variant of the loop that ends at the first archive that fails (break
\* for continue).
RemainingBreak(out, rest) == IF out \in {"go", "ok"} THEN rest ELSE {}
\* The archives of the snapshot the loop still has to process after a step
\* that ended as out, rest being those not yet reached: every branch of the
\* body ends in continue or falls through to the next iteration (lines 859,
\* 874, 878, 888, 896, 904, 914, 929 and the two handlers), none leaves the
\* loop.
Remaining(out, rest) == rest

\* What a step of the loop over the archives leaves behind: the next step of
\* the iteration when res.out = "go", else the iteration is over.
EndStep(r, z, res, next) ==
    /\ fs' = res.fs
    /\ zips' = [zips EXCEPT ![r] = Remaining(res.out, @ \ {z})]
    /\ stats' = [stats EXCEPT ![r] = res.stats]
    /\ faults' = [faults EXCEPT ![r] = @ + res.used]
    /\ IF res.out = "go"
       THEN /\ pc' = [pc EXCEPT ![r] = next]
            /\ cur' = [cur EXCEPT ![r] = z]
            /\ UNCHANGED outcome
       ELSE /\ pc' = [pc EXCEPT ![r] = "extract"]
            /\ cur' = [cur EXCEPT ![r] = <<>>]
            /\ outcome' = [outcome EXCEPT ![r] =
                              [x \in DOMAIN @ \cup {z} |-> IF x = z THEN res.out ELSE @[x]]]

\* Lines 848-904: the next archive of the snapshot, up to the creation of
\* its destination directory.
ExtractPrepare(r) ==
    /\ mode = "run" /\ pc[r] = "extract"
    /\ \E z \in zips[r], long \in Longs, big \in Answers, over \in Answers,
          F \in FaultSets(r, {"stat", "rmtree", "mkdir"}) :
          LET inp == [long |-> long, big |-> big, over |-> over, faults |-> F]
              res == Prepare(fs, stats[r], z, zipContent[z], args[r], env, inp)
          IN  /\ res.used = Cardinality(F)
              /\ EndStep(r, z, res, "opened")
    /\ UNCHANGED <<envVars, lockVars, dirVars, rc, ret>>

\* Lines 906-939 and the handlers: the archive is opened and validated.
ExtractValidate(r) ==
    /\ mode = "run" /\ pc[r] = "opened"
    /\ \E enc \in Answers, F \in FaultSets(r, {"open", "rmtree"}) :
          LET inp == [enc |-> enc, faults |-> F]
              res == Validate(fs, stats[r], cur[r], zipContent[cur[r]], args[r], env, inp)
          IN  /\ res.used = Cardinality(F)
              /\ EndStep(r, cur[r], res, "extractall")
    /\ UNCHANGED <<envVars, lockVars, dirVars, rc, ret>>

\* Lines 942-962 and the handlers: extraction, cleaning, emptiness check and
\* removal of the archive.
ExtractAll(r) ==
    /\ mode = "run" /\ pc[r] = "extractall"
    /\ LET z == cur[r]
           zc == zipContent[z]
       IN  \E failAt \in 0..Len(zc.entries), F \in FaultSets(r, {"iterdir", "unlink", "rmtree"}) :
             \E bad \in BadSets(r, extractall(fs, <<Stem(z)>>, zc.entries, failAt).fs, <<Stem(z)>>) :
                LET inp == [failAt |-> failAt, bad |-> bad, faults |-> F]
                    res == Finish(fs, stats[r], z, zc, inp)
                IN  /\ res.used = Cardinality(F) + Cardinality(bad) + (IF failAt > 0 THEN 1 ELSE 0)
                    /\ res.used <= Budget(r)
                    /\ EndStep(r, z, res, "extract")
    /\ UNCHANGED <<envVars, lockVars, dirVars, rc, ret>>

\* extract_zip_files returns: the snapshot is exhausted.
ExtractEnd(r) ==
    /\ mode = "run" /\ pc[r] = "extract"
    /\ zips[r] = {}
    /\ pc' = [pc EXCEPT ![r] = IF args[r].entry = "main" THEN "clean" ELSE "done"]
    /\ UNCHANGED <<fs, envVars, lockVars, stats, zipVars, dirVars, rc, ret, faults>>

\* The names of the entries of the target directory (root_dir.iterdir()).
RootNames(f) == {Last(p) : p \in Children(f, <<>>)}

\* Lines 1256-1260: the whole target directory is cleaned; reorganize is
\* entered and takes its snapshot.
MainClean(r) ==
    /\ mode = "run" /\ pc[r] = "clean"
    /\ \E bad \in BadSets(r, fs, <<>>) :
          LET c == remove_apple_system_files(fs, <<>>, bad)
          IN  /\ fs' = c.fs
              /\ stats' = [stats EXCEPT ![r] = Cleaned(@, c)]
              /\ faults' = [faults EXCEPT ![r] = @ + Cardinality(bad)]
              /\ parents' = [parents EXCEPT ![r] = RootNames(c.fs)]
    /\ pc' = [pc EXCEPT ![r] = "reorg"]
    /\ UNCHANGED <<envVars, lockVars, zipVars, pairs, rc, ret>>

\* Line 1020, first iteration: reorganize_directories called on its own
\* takes the snapshot of the target directory.
ReorgStart(r) ==
    /\ mode = "run" /\ pc[r] = "reorganize"
    /\ parents' = [parents EXCEPT ![r] = RootNames(fs)]
    /\ pc' = [pc EXCEPT ![r] = "reorg"]
    /\ UNCHANGED <<fs, envVars, lockVars, stats, zipVars, pairs, rc, ret, faults>>

\* Lines 986-995: the generator reaches an entry that is no candidate (not a
\* directory, not exactly one subdirectory, or its listing raised OSError)
\* and goes on; nothing is counted.
ReorgSkip(r) ==
    /\ mode = "run" /\ pc[r] = "reorg"
    /\ \E P \in parents[r], F \in FaultSets(r, {"listdir"}) :
          /\ ~Candidate(fs, P) \/ F # {}
          /\ IsDir(fs, <<P>>) \/ F = {}
          /\ parents' = [parents EXCEPT ![r] = @ \ {P}]
          /\ faults' = [faults EXCEPT ![r] = @ + Cardinality(F)]
    /\ UNCHANGED <<fs, envVars, lockVars, stats, zipVars, pairs, pc, rc, ret>>

\* A variant of the generator that also reaches the entries a step added to
\* the target directory.
PendingWithNew(rest, f, f2) == rest \cup (RootNames(f2) \ RootNames(f))
\* The entries the generator still has to reach after a step that turned the
\* tree f into f2, rest being those of the snapshot not yet reached: line 986
\* iterates over the os.listdir taken when the pass began, so what the loop
\* body moves into the target directory is not added.
Pending(rest, f, f2) == rest

\* Lines 986-993 and 1020-1077: the generator yields the pair (P, child) and
\* the loop body processes it.
ReorgVisit(r) ==
    /\ mode = "run" /\ pc[r] = "reorg"
    /\ \E P \in parents[r], long \in Longs, over \in Answers,
          F \in FaultSets(r, {"rmtree", "move", "rmdir"}) :
          /\ Candidate(fs, P)
          /\ \E bad \in BadSets(r, fs, <<P>>) :
                LET inp == [long |-> long, over |-> over, bad |-> bad, faults |-> F]
                    res == ReorgPair(fs, stats[r], P, args[r], env, inp)
                IN  /\ res.used = Cardinality(F) + Cardinality(bad)
                    /\ res.used <= Budget(r)
                    /\ fs' = res.fs
                    /\ stats' = [stats EXCEPT ![r] = res.stats]
                    /\ faults' = [faults EXCEPT ![r] = @ + res.used]
                    /\ pairs' = [pairs EXCEPT ![r] =
                                    [x \in DOMAIN @ \cup {P} |-> IF x = P THEN res.out ELSE @[x]]]
                    /\ parents' = [parents EXCEPT ![r] = Pending(@ \ {P}, fs, res.fs)]
    /\ UNCHANGED <<envVars, lockVars, zipVars, pc, rc, ret>>

\* reorganize_directories returns: the snapshot is exhausted.
ReorgEnd(r) ==
    /\ mode = "run" /\ pc[r] = "reorg"
    /\ parents[r] = {}
    /\ pc' = [pc EXCEPT ![r] = IF args[r].entry = "main" THEN "report" ELSE "done"]
    /\ UNCHANGED <<fs, envVars, lockVars, stats, zipVars, dirVars, rc, ret, faults>>

\* reorganize_directories is called once more on the target directory, with
\* the same arguments and fresh statistics, after the first call returned.
SecondPass ==
    /\ mode = "run" /\ pc[1] = "done" /\ pc[2] = "idle"
    /\ args[1].entry = "reorganize" /\ args[2] = args[1]
    /\ pc' = [pc EXCEPT ![2] = "reorganize"]
    /\ UNCHANGED <<fs, envVars, lockVars, stats, zipVars, dirVars, rc, ret, faults>>

\* Line 1269: the exit status main computes from the statistics.
ExitStatusZero(st) == 0
ExitStatus(st) == IF st.errors = 0 THEN 0 ELSE 1

\* Lines 1280-1281: where control goes when the try block is left by an
\* exception: the finally clause.
OnExceptionSkipFinally == "returned"
OnException == "finally"

\* Lines 1265-1278: print_logs and print_summary, then the return value; an
\* exception raised while printing is logged as an ERROR and returns 1.
Report(r) ==
    /\ mode = "run" /\ pc[r] = "report"
    /\ \E F \in FaultSets(r, {"print"}) :
          /\ faults' = [faults EXCEPT ![r] = @ + Cardinality(F)]
          /\ IF F = {}
             THEN /\ rc' = [rc EXCEPT ![r] = ExitStatus(stats[r])]
                  /\ pc' = [pc EXCEPT ![r] = "finally"]
                  /\ UNCHANGED stats
             ELSE /\ rc' = [rc EXCEPT ![r] = 1]
                  /\ pc' = [pc EXCEPT ![r] = OnException]
                  /\ stats' = [stats EXCEPT ![r] = LogError(@)]
    /\ UNCHANGED <<fs, envVars, lockVars, zipVars, dirVars, ret>>

\* Lines 1271-1278: an exception no function handles (the glob or iterdir
\* of the target directory, an exists() or is_dir() test raising OSError)
\* reaches main's handler: an ERROR entry, return 1.
Unexpected(r) ==
    /\ mode = "run"
    /\ \/ pc[r] = "try" /\ ~args[r].clean_only
       \/ pc[r] \in {"extract", "reorg"}
    /\ Budget(r) > 0
    /\ faults' = [faults EXCEPT ![r] = @ + 1]
    /\ stats' = [stats EXCEPT ![r] = LogError(@)]
    /\ rc' = [rc EXCEPT ![r] = 1]
    /\ pc' = [pc EXCEPT ![r] = OnException]
    /\ UNCHANGED <<fs, envVars, lockVars, zipVars, dirVars, ret>>

\* KeyboardInterrupt inside the try block: no handler of the program catches
\* it (it is no Exception), the finally clause runs and the process ends
\* with the status of an interruption, 130, main returning nothing.
Interrupt(r) ==
    /\ mode = "run"
    /\ pc[r] \in {"try", "extract", "opened", "extractall", "clean", "reorg", "report"}
    /\ rc' = [rc EXCEPT ![r] = 130]
    /\ pc' = [pc EXCEPT ![r] = "finally"]
    /\ UNCHANGED <<fs, envVars, lockVars, stats, zipVars, dirVars, ret, faults>>

\* release_lock(lock_fd, stats): nothing for None; flock(LOCK_UN) and close
\* for an open descriptor; for a descriptor already closed flock raises
\* OSError, which is logged as a WARNING.
release_lock(lfd, open, owner, r, st) ==
    IF lfd = "none" THEN [owner |-> owner, open |-> open, stats |-> st]
    ELSE IF open
    THEN [owner |-> IF owner = r THEN 0 ELSE owner, open |-> FALSE, stats |-> st]
    ELSE [owner |-> owner, open |-> open, stats |-> LogWarning(st)]

\* Lines 1280-1281: the finally clause of main.
ReleaseLock(r) ==
    /\ mode = "run" /\ pc[r] = "finally"
    /\ LET res == release_lock(lock_fd[r], fdOpen[r], lockOwner, r, stats[r])
       IN  /\ lockOwner' = res.owner
           /\ fdOpen' = [fdOpen EXCEPT ![r] = res.open]
           /\ stats' = [stats EXCEPT ![r] = res.stats]
    /\ pc' = [pc EXCEPT ![r] = "returned"]
    /\ UNCHANGED <<fs, envVars, lock_fd, zipVars, dirVars, rc, ret, faults>>

\* release_lock called once more with the handle main holds, after main's
\* own call in the finally clause (lines 727-748).
ReleaseAgain(r) ==
    /\ mode = "run" /\ pc[r] = "returned"
    /\ LET res == release_lock(lock_fd[r], fdOpen[r], lockOwner, r, stats[r])
       IN  /\ lockOwner' = res.owner
           /\ fdOpen' = [fdOpen EXCEPT ![r] = res.open]
           /\ stats' = [stats EXCEPT ![r] = res.stats]
    /\ pc' = [pc EXCEPT ![r] = "released_again"]
    /\ UNCHANGED <<fs, envVars, lock_fd, zipVars, dirVars, rc, ret, faults>>

\* ------------------------------------------- remove_apple_system_files alone
\* Two calls in a row on the target directory; ret records what each call
\* returned.
CleanCall(r) ==
    /\ mode = "run" /\ pc[r] = "clean_call"
    /\ Len(ret[r]) < 2
    /\ \E bad \in BadSets(r, fs, <<>>) :
          LET c == remove_apple_system_files(fs, <<>>, bad)
          IN  /\ fs' = c.fs
              /\ stats' = [stats EXCEPT ![r] = LogErrors(@, c.errs)]
              /\ faults' = [faults EXCEPT ![r] = @ + Cardinality(bad)]
              /\ ret' = [ret EXCEPT ![r] = Append(@, <<c.files, c.dirs>>)]
    /\ UNCHANGED <<envVars, lockVars, zipVars, dirVars, pc, rc>>

\* --------------------------------------------------------- specifications
MainNames == {nmA, nmX, nmDSStore, nmDSStoreBak}
ExtractNames == {nmA, nmX}
TreeNames == {nmFoo, nmA, nmX, nmDSStore}
CleanNames == {nmFoo, nmX, nmMACOSX, nmDSStore, nmDSStoreBak, nmSidecar}

Arguments(entry, no_confirms, clean_onlys) ==
    [no_confirm : no_confirms, clean_only : clean_onlys, max_size : {MAX_ZIP_SIZE},
     entry : {entry}]
Only(a) == [r \in Runs |-> IF r = 1 THEN a ELSE Args0]

\* The environments of a run: on POSIX with or without a terminal, with a
\* sentinel file that can or cannot be opened; on Windows; and with a target
\* directory that fails main's validation.
Environments ==
    [os_name : {"posix"}, tty : BOOLEAN, lockable : BOOLEAN, root : {"dir"}]
    \cup {[Env0 EXCEPT !.os_name = "nt"]}
    \cup {[Env0 EXCEPT !.root = x] :
             x \in {"missing", "file", "unreadable", "unwritable", "unresolved"}}

\* One run of main on one target directory.
StartMain ==
    \E e \in Environments, a \in Arguments("main", BOOLEAN, BOOLEAN) :
        /\ e.root # "dir" => a = Args0
        /\ Begin({1}, e, Only(a))

Next ==
    \/ SetupZip(MainEntries, ArchiveKinds, SecondKinds)
    \/ SetupNode(MainNames, {"dir", "file"}, MainEntries)
    \/ StartMain
    \/ \E r \in Runs : ValidateDir(r)
    \/ \E r \in Runs : AcquireLock(r)
    \/ \E r \in Runs : NoLock(r)
    \/ \E r \in Runs : CleanOnly(r)
    \/ \E r \in Runs : ExtractStart(r)
    \/ \E r \in Runs : ExtractPrepare(r)
    \/ \E r \in Runs : ExtractValidate(r)
    \/ \E r \in Runs : ExtractAll(r)
    \/ \E r \in Runs : ExtractEnd(r)
    \/ \E r \in Runs : MainClean(r)
    \/ \E r \in Runs : ReorgSkip(r)
    \/ \E r \in Runs : ReorgVisit(r)
    \/ \E r \in Runs : ReorgEnd(r)
    \/ \E r \in Runs : Report(r)
    \/ \E r \in Runs : Unexpected(r)
    \/ \E r \in Runs : Interrupt(r)
    \/ \E r \in Runs : ReleaseLock(r)

Spec == Init /\ [][Next]_vars

\* extract_zip_files called on a target directory.
StartExtract ==
    \E e \in {x \in Environments : x.root = "dir" /\ x.lockable},
       a \in Arguments("extract_zip_files", BOOLEAN, {FALSE}) :
        Begin({1}, e, Only(a))

NextExtract ==
    \/ SetupZip(MaxEntries, ArchiveKinds, SecondKinds)
    \/ SetupNode(ExtractNames, {"dir", "file"}, MaxEntries)
    \/ StartExtract
    \/ \E r \in Runs : ExtractCall(r)
    \/ \E r \in Runs : ExtractPrepare(r)
    \/ \E r \in Runs : ExtractValidate(r)
    \/ \E r \in Runs : ExtractAll(r)
    \/ \E r \in Runs : ExtractEnd(r)

SpecExtract == Init /\ [][NextExtract]_vars

\* remove_apple_system_files called twice in a row on a tree.
StartClean ==
    \E a \in Arguments("clean_call", {FALSE}, {FALSE}) : Begin({1}, Env0, Only(a))

NextClean ==
    \/ SetupNode(CleanNames, Kinds, MaxNodes)
    \/ StartClean
    \/ \E r \in Runs : CleanCall(r)

SpecClean == Init /\ [][NextClean]_vars

\* reorganize_directories called on a tree.
StartReorg ==
    \E e \in {x \in Environments : x.root = "dir" /\ x.lockable},
       a \in Arguments("reorganize", BOOLEAN, {FALSE}) :
        Begin({1}, e, Only(a))

NextReorg ==
    \/ SetupNode(TreeNames, {"dir", "file"}, MaxNodes)
    \/ StartReorg
    \/ \E r \in Runs : ReorgStart(r)
    \/ \E r \in Runs : ReorgSkip(r)
    \/ \E r \in Runs : ReorgVisit(r)
    \/ \E r \in Runs : ReorgEnd(r)

SpecReorg == Init /\ [][NextReorg]_vars

\* Two runs of main started concurrently with the same arguments, without a
\* terminal, on the same target directory, whose sentinel file can be opened.
StartLock ==
    \E a \in Arguments("main", BOOLEAN, {FALSE}) :
        Begin(Runs, Env0, [r \in Runs |-> a])

NextLock ==
    \/ SetupZip(LockEntries, LockKinds, LockKinds)
    \/ StartLock
    \/ \E r \in Runs : ValidateDir(r)
    \/ \E r \in Runs : AcquireLock(r)
    \/ \E r \in Runs : ExtractStart(r)
    \/ \E r \in Runs : ExtractPrepare(r)
    \/ \E r \in Runs : ExtractValidate(r)
    \/ \E r \in Runs : ExtractAll(r)
    \/ \E r \in Runs : ExtractEnd(r)
    \/ \E r \in Runs : MainClean(r)
    \/ \E r \in Runs : ReorgSkip(r)
    \/ \E r \in Runs : ReorgVisit(r)
    \/ \E r \in Runs : ReorgEnd(r)
    \/ \E r \in Runs : Report(r)
    \/ \E r \in Runs : Unexpected(r)
    \/ \E r \in Runs : Interrupt(r)
    \/ \E r \in Runs : ReleaseLock(r)

SpecLock == Init /\ [][NextLock]_vars

\* One run of main without --no-confirm and without a terminal, the sentinel
\* file openable or not.
NoTtyNames == {nmA, nmFoo, nmX}
StartNoTty ==
    \E l \in BOOLEAN, a \in Arguments("main", {FALSE}, {FALSE}) :
        Begin({1}, [Env0 EXCEPT !.lockable = l], Only(a))

NextNoTty ==
    \/ SetupZip(NoTtyEntries, ArchiveKinds, SecondKinds)
    \/ SetupNode(NoTtyNames, {"dir", "file"}, NoTtyEntries)
    \/ StartNoTty
    \/ \E r \in Runs : ValidateDir(r)
    \/ \E r \in Runs : AcquireLock(r)
    \/ \E r \in Runs : NoLock(r)
    \/ \E r \in Runs : ExtractStart(r)
    \/ \E r \in Runs : ExtractPrepare(r)
    \/ \E r \in Runs : ExtractValidate(r)
    \/ \E r \in Runs : ExtractAll(r)
    \/ \E r \in Runs : ExtractEnd(r)
    \/ \E r \in Runs : MainClean(r)
    \/ \E r \in Runs : ReorgSkip(r)
    \/ \E r \in Runs : ReorgVisit(r)
    \/ \E r \in Runs : ReorgEnd(r)
    \/ \E r \in Runs : Report(r)
    \/ \E r \in Runs : Unexpected(r)
    \/ \E r \in Runs : Interrupt(r)
    \/ \E r \in Runs : ReleaseLock(r)

SpecNoTty == Init /\ [][NextNoTty]_vars

\* reorganize_directories called twice in a row on a tree of directories,
\* with no terminal: an overwrite goes ahead under no_confirm and is declined
\* without it.
ChainNames == {nmA, nmFoo, nmX}
StartChain ==
    \E a \in Arguments("reorganize", BOOLEAN, {FALSE}) :
        Begin({1}, Env0, [r \in Runs |-> a])

NextChain ==
    \/ SetupNode(ChainNames, {"dir"}, ChainNodes)
    \/ StartChain
    \/ \E r \in Runs : ReorgStart(r)
    \/ \E r \in Runs : ReorgSkip(r)
    \/ \E r \in Runs : ReorgVisit(r)
    \/ \E r \in Runs : ReorgEnd(r)
    \/ SecondPass

SpecChain == Init /\ [][NextChain]_vars

\* main, then release_lock once more on the handle of the run.
NextRelease ==
    \/ Next
    \/ \E r \in Runs : ReleaseAgain(r)

SpecRelease == Init /\ [][NextRelease]_vars

\* ------------------------------------------------------------------ claims
\* The branches of an iteration of extract_zip_files that end in one of the
\* two handlers of its try block, and those the claims call a failed
\* validation.
HandlerOuts ==
    {"open_failed", "bad_zip", "testzip_raised", "unsafe", "extract_failed",
     "iterdir_failed"}
ValidationOuts == {"corrupted", "unsafe", "encrypted_declined"}
Dest(z) == <<Stem(z)>>
aZip == ZipName(nmA)
\* The iteration of archive z ended in this step of run r.
Processed(r, z) == z \notin DOMAIN outcome[r] /\ z \in DOMAIN outcome'[r]

\* C1: whenever the processing of an archive ends in a failed validation
\* (corrupted member, unsafe path, encryption not confirmed) and no removal
\* was made to fail, its destination directory does not exist afterwards.
C1_NoDestAfterFailedValidation ==
    [][\A r \in Runs : \A z \in DOMAIN zipContent :
          (Processed(r, z) /\ outcome'[r][z] \in ValidationOuts
              /\ faults'[r] = faults[r])
          => ~Exists(fs', Dest(z))]_vars

\* The archive a.zip was found corrupted and its empty destination is there.
C1_CorruptedLeavesDest ==
    /\ aZip \in DOMAIN outcome[1]
    /\ outcome[1][aZip] = "corrupted"
    /\ IsDir(fs, Dest(aZip))
    /\ Children(fs, Dest(aZip)) = {}
    /\ stats[1].failed_extractions = 1

\* C2: two runs of main that obtain the lock are serialized: at most one
\* holds the lock at any moment, a run leaves acquire_lock only when no other
\* run holds it, and while a run is between creating a destination directory
\* and finishing or removing it, the other run is outside its locked section.
Holding(r) == lock_fd[r] = "fd" /\ fdOpen[r]
Locked == {"try", "extract", "opened", "extractall", "clean", "reorg", "report", "finally"}
Subtree(f, p) ==
    [q \in {SubSeq(d, Len(p) + 1, Len(d)) : d \in Descendants(f, p)} |-> f[p \o q]]
Visited(r, P) == P \notin DOMAIN pairs[r] /\ P \in DOMAIN pairs'[r]
C3_SingleChildCollapsed ==
    [][\A r \in Runs : \A P \in parents[r] :
          (/\ Visited(r, P)
           /\ pairs'[r][P] \notin {"declined", "too_long"}
           /\ faults'[r] = faults[r]
           /\ \A Q \in RootNames(fs) \ {P} :
                 \A c \in Children(fs, <<P>>) : Q # Last(c))
          => \A c \in Children(fs, <<P>>) :
                /\ IsDir(fs', <<Last(c)>>)
                /\ Subtree(fs', <<Last(c)>>)
                      = Subtree(remove_apple_system_files(fs, <<P>>, {}).fs, c)
                /\ P # Last(c) => ~Exists(fs', <<P>>)
                /\ stats'[r].dirs_reorganized = stats[r].dirs_reorganized + 1]_vars

\* root/foo/foo/x was processed with the overwrite suppressed: nothing is left
\* of it.
C3_SameNameDestroyed ==
    /\ fs0 = (<<nmFoo>> :> "dir") @@ (<<nmFoo, nmFoo>> :> "dir")
               @@ (<<nmFoo, nmFoo, nmX>> :> "file")
    /\ args[1].entry = "reorganize" /\ args[1].no_confirm
    /\ pc[1] = "done" /\ faults[1] = 0
    /\ fs = EmptyFS
    /\ stats[1].dirs_reorganized = 0

\* C4: when extract_zip_files returns, every archive counted in
\* successful_extractions has a destination directory with at least one
\* entry, and its archive file is gone.
Succeeded(r) == {z \in DOMAIN outcome[r] : outcome[r][z] = "ok"}
C4_SuccessKeepsContent ==
    \A r \in Runs :
       (args[r].entry = "extract_zip_files" /\ pc[r] = "done")
       => /\ stats[r].successful_extractions = Cardinality(Succeeded(r))
          /\ \A z \in Succeeded(r) :
                /\ IsDir(fs, Dest(z))
                /\ Children(fs, Dest(z)) # {}
                /\ ~Exists(fs, <<z>>)

\* extract_zip_files returned having extracted a.zip, whose junk it removed.
C4_Extracted ==
    /\ args[1].entry = "extract_zip_files" /\ pc[1] = "done"
    /\ aZip \in Succeeded(1)
    /\ stats[1].dirs_removed = 1
    /\ IsFile(fs, Dest(aZip) \o <<nmX>>)

\* C5: an iteration that ends in a handler of the try block, the removal not
\* failing, has removed the destination directory and counted the archive as
\* failed; one whose removal failed is counted as failed too; and after a
\* failure past the creation of the destination no entry of the archive is
\* left in it unless that removal failed.
AfterCreation == HandlerOuts \cup {"corrupted", "encrypted_declined", "empty"}
C5_HandlerRemovesDest ==
    [][\A r \in Runs : \A z \in DOMAIN zipContent :
          Processed(r, z)
          => /\ outcome'[r][z] \in HandlerOuts
                => /\ ~Exists(fs', Dest(z))
                   /\ stats'[r].failed_extractions > stats[r].failed_extractions
                   /\ stats'[r].errors > stats[r].errors
             /\ outcome'[r][z] = "removal_failed"
                => stats'[r].failed_extractions > stats[r].failed_extractions
             /\ outcome'[r][z] \in AfterCreation
                => Children(fs', Dest(z)) = {}]_vars

\* The extraction of a.zip failed midway with x already written, and the
\* destination was removed.
C5_PartialRemoved ==
    /\ aZip \in DOMAIN outcome[1]
    /\ outcome[1][aZip] = "extract_failed"
    /\ Len(zipContent[aZip].entries) = 2
    /\ faults[1] = 1
    /\ ~Exists(fs, Dest(aZip))
    /\ stats[1].failed_extractions = 1

\* C6: a run that obtained the lock has unlocked and closed the sentinel
\* descriptor when main returns, whatever the path; and once it has released,
\* the run changes nothing in the tree.
Released(r) == lock_fd[r] = "fd" /\ ~fdOpen[r]
C6_LockReleased ==
    [][\A r \in Runs :
          /\ (pc'[r] = "returned" /\ lock_fd'[r] = "fd")
             => ~fdOpen'[r] /\ lockOwner' # r
          /\ Released(r) => fs' = fs /\ pc'[r] = "returned"]_vars

\* main returned 1 after an unexpected exception, the lock released.
C6_ReleasedAfterException ==
    /\ pc[1] = "returned" /\ rc[1] = 1
    /\ faults[1] = 1 /\ stats[1].errors = 1
    /\ Released(1) /\ lockOwner = 0
    /\ DOMAIN outcome[1] # {}

\* C7: the second of two calls of remove_apple_system_files in a row, the
\* first having logged no failure, returns (0, 0) and leaves the tree as it
\* was.
C7_Idempotent ==
    [][\A r \in Runs :
          (/\ pc[r] = "clean_call"
           /\ Len(ret[r]) = 1 /\ Len(ret'[r]) = 2
           /\ stats[r].errors = 0)
          => ret'[r][2] = <<0, 0>> /\ fs' = fs]_vars

\* Two calls were made; the first removed a file and a directory.
C7_SecondCall ==
    /\ pc[1] = "clean_call" /\ Len(ret[1]) = 2
    /\ ret[1][1] = <<1, 1>>
    /\ stats[1].errors = 0

\* C8: an archive with an entry whose path is absolute or has a ".." segment
\* never reaches extractall and never ends as extracted.
TraversalEntry(fn) == IsAbs(fn) \/ HasTraversalSegment(fn)
HasTraversal(z) ==
    \E i \in 1..Len(zipContent[z].entries) : TraversalEntry(zipContent[z].entries[i].fn)
C8_TraversalRejected ==
    \A r \in Runs :
       /\ pc[r] = "extractall" => ~HasTraversal(cur[r])
       /\ \A z \in DOMAIN outcome[r] : HasTraversal(z) => outcome[r][z] # "ok"

\* a.zip holding x and a/.. was extracted and counted as a success.
C8_TrailingExtracted ==
    /\ aZip \in Succeeded(1)
    /\ zipContent[aZip].entries = <<Member(fnX), Member(fnTrailing)>>
    /\ IsFile(fs, Dest(aZip) \o <<nmA>>)
    /\ stats[1].successful_extractions = 1 /\ stats[1].errors = 0

KeptFiles(f) ==
    {q \in DOMAIN f :
        /\ f[q] = "file"
        /\ ~is_apple_system_file(Last(q))
        /\ \A n \in 1..(Len(q) - 1) : q[n] \notin APPLE_SYSTEM_DIRS}
StillThere(f, q) == IsFile(f, q) \/ IsFile(f, Tail(q))
C10_IgnoredLosesNothing ==
    [][\A r \in Runs :
          stats'[r].dirs_ignored > stats[r].dirs_ignored
          => \A q \in KeptFiles(fs) : StillThere(fs', q)]_vars

\* The pair (foo, foo/foo) was counted as ignored and root/foo/foo/x is gone.
C10_IgnoredAfterLoss ==
    /\ <<nmFoo, nmFoo, nmX>> \in KeptFiles(fs0)
    /\ nmFoo \in DOMAIN pairs[1] /\ pairs[1][nmFoo] = "move_failed"
    /\ stats[1].dirs_ignored = 1 /\ faults[1] = 0
    /\ KeptFiles(fs) = {}

\* C11: when reorganize_directories passes a child P of the root that is a
\* directory with two or more entries, P and everything under it stay as
\* they were and P is counted in dirs_ignored.
Passed(r, P) == P \in parents[r] /\ P \notin parents'[r]
C11_CrowdedCountedIgnored ==
    [][\A r \in Runs : \A P \in parents[r] :
          (/\ Passed(r, P)
           /\ IsDir(fs, <<P>>)
           /\ Cardinality(Children(fs, <<P>>)) >= 2)
          => /\ Subtree(fs', <<P>>) = Subtree(fs, <<P>>)
             /\ stats'[r].dirs_ignored = stats[r].dirs_ignored + 1]_vars

\* reorganize_directories returned on a root whose only child a holds x and
\* foo: the tree is as it was and nothing was examined or counted as ignored.
C11_CrowdedNotCounted ==
    /\ args[1].entry = "reorganize" /\ pc[1] = "done"
    /\ RootNames(fs0) = {nmA}
    /\ Children(fs0, <<nmA>>) = {<<nmA, nmX>>, <<nmA, nmFoo>>}
    /\ fs = fs0
    /\ stats[1].dirs_ignored = 0 /\ stats[1].dirs_examined = 0

\* C12: an archive whose destination exists when the loop reaches the
\* overwrite question: without no_confirm, the operator declining (or no
\* terminal being there to ask), the iteration ends there, the archive not
\* opened, and the tree -- destination, its contents, the archive file -- is
\* as it was; with no_confirm nothing is asked (the step is the same whatever
\* the terminal and the answers) and the step that goes on to open the
\* archive leaves the destination an empty directory.
EarlyOuts == {"too_long", "stat_failed", "too_large"}
PrepareInputs ==
    [long : Longs, big : Answers, over : Answers,
     faults : {{}, {"stat"}, {"rmtree"}, {"mkdir"}}]
C12_DeclinedDestUntouched ==
    \A r \in Runs :
       (mode = "run" /\ pc[r] = "extract")
       => \A z \in zips[r] : \A inp \in PrepareInputs :
             LET res == Prepare(fs, stats[r], z, zipContent[z], args[r], env, inp)
             IN  (Exists(fs, Dest(z)) /\ res.out \notin EarlyOuts)
                 => /\ (~args[r].no_confirm /\ ~(env.tty /\ inp.over))
                       => res.out = "declined" /\ res.fs = fs
                    /\ args[r].no_confirm
                       => /\ res.out # "declined"
                          /\ \A tty \in BOOLEAN, over \in Answers :
                                Prepare(fs, stats[r], z, zipContent[z], args[r],
                                        [env EXCEPT !.tty = tty],
                                        [inp EXCEPT !.over = over]) = res
                          /\ res.out = "go"
                             => /\ IsDir(res.fs, Dest(z))
                                /\ Children(res.fs, Dest(z)) = {}
                                /\ Exists(res.fs, <<z>>)

\* The operator at the terminal declined to overwrite root/a, which holds x:
\* a/x and a.zip are still there.
C12_DeclinedAtTerminal ==
    /\ aZip \in DOMAIN outcome[1] /\ outcome[1][aZip] = "declined"
    /\ env.tty /\ ~args[1].no_confirm
    /\ IsFile(fs0, Dest(aZip) \o <<nmX>>)
    /\ fs = fs0
    /\ IsFile(fs, <<aZip>>)

\* C13: an archive whose overwrite was declined is recorded as skipped and
\* not as failed: the iteration that ends so leaves failed_extractions as it
\* was and logs no ERROR.
C13_DeclinedNotFailed ==
    [][\A r \in Runs : \A z \in DOMAIN zipContent :
          (Processed(r, z) /\ outcome'[r][z] = "declined")
          => /\ stats'[r].failed_extractions = stats[r].failed_extractions
             /\ stats'[r].errors = stats[r].errors]_vars

\* The overwrite of root/a was declined and a.zip is counted as failed, with
\* no ERROR logged.
C13_DeclinedCountedFailed ==
    /\ aZip \in DOMAIN outcome[1] /\ outcome[1][aZip] = "declined"
    /\ DOMAIN outcome[1] = {aZip}
    /\ stats[1].failed_extractions = 1
    /\ stats[1].successful_extractions = 0
    /\ stats[1].errors = 0

\* C14: a call of remove_apple_system_files leaves in place every symbolic
\* link, socket, FIFO and device under the root, whatever its name and
\* wherever it lies in the tree.
Special(f) == {p \in DOMAIN f : f[p] \in {"symlink", "fifo"}}
CleanReturned(r) == pc[r] = "clean_call" /\ Len(ret'[r]) = Len(ret[r]) + 1
InArtifactDir(f, p) ==
    \E d \in DOMAIN f : IsUnder(p, d) /\ f[d] = "dir" /\ Last(d) \in APPLE_SYSTEM_DIRS
ExactArtifactName(n) == n \in APPLE_SYSTEM_FILES \/ ApplePattern(n)
C15_ExactNamesOnly ==
    [][\A r \in Runs :
          CleanReturned(r)
          => \A p \in DOMAIN fs :
                ~InArtifactDir(fs, p)
                => /\ fs[p] = "file"
                      => /\ p \notin DOMAIN fs' => ExactArtifactName(Last(p))
                         /\ (ExactArtifactName(Last(p)) /\ faults'[r] = faults[r])
                            => p \notin DOMAIN fs'
                   /\ fs[p] = "dir"
                      => /\ p \notin DOMAIN fs' => Last(p) \in APPLE_SYSTEM_DIRS
                         /\ (Last(p) \in APPLE_SYSTEM_DIRS /\ faults'[r] = faults[r])
                            => p \notin DOMAIN fs']_vars

\* The first call deleted the regular file .DS_Store_bak and counted it.
C15_PrefixNameDeleted ==
    /\ Len(ret[1]) >= 1 /\ ret[1][1] = <<1, 0>>
    /\ fs0 = (<<nmDSStoreBak>> :> "file") @@ (<<nmX>> :> "file")
    /\ fs = (<<nmX>> :> "file")
    /\ stats[1].errors = 0

\* C16: a call of remove_apple_system_files on the tree, whichever of its
\* deletions fail: one ERROR is logged for each removal that fails (an
\* artifact whose deletion is refused, or an artifact directory holding
\* one), every other artifact is gone afterwards, and the two counts returned
\* are the numbers of artifact files and artifact directories that are gone.
FailingRemovals(f, bad) ==
    {a \in Artifacts(f, <<>>) : \E q \in bad : q = a \/ IsUnder(q, a)}
C16_FailureDoesNotAbort ==
    \A r \in Runs :
       (mode = "run" /\ pc[r] = "clean_call")
       => \A bad \in SUBSET Artifacts(fs, <<>>) :
             LET c == remove_apple_system_files(fs, <<>>, bad)
                 gone == {a \in Artifacts(fs, <<>>) : a \notin DOMAIN c.fs}
             IN  /\ c.errs = Cardinality(FailingRemovals(fs, bad))
                 /\ gone = Artifacts(fs, <<>>) \ FailingRemovals(fs, bad)
                 /\ c.files = Cardinality({a \in gone : fs[a] = "file"})
                 /\ c.dirs = Cardinality({a \in gone : fs[a] = "dir"})

\* The first call failed to delete one artifact, logged one ERROR, and
\* removed the other two: the file ._x and the directory __MACOSX.
C16_OneFailedOthersRemoved ==
    /\ Len(ret[1]) >= 1 /\ ret[1][1] = <<1, 1>>
    /\ stats[1].errors = 1 /\ faults[1] = 1
    /\ Cardinality(Artifacts(fs0, <<>>)) = 3
    /\ Cardinality(DOMAIN fs) = 1
    /\ ~Exists(fs, <<nmMACOSX>>)

\* C17: the failure of one archive does not stop extract_zip_files.  When
\* the call has returned, every archive of the snapshot has been processed
\* and counted; and for an archive reached after one that failed, each step
\* of its processing (preparation, validation, extraction), whatever the
\* environment does, changes nothing outside its archive file and its
\* destination, and has the outcome, the statistics and the effect on those
\* two that it has on a tree holding them alone.
OwnPath(z, p) == p = <<z>> \/ p = Dest(z) \/ IsUnder(p, Dest(z))
Own(f, z) == Restrict(f, {p \in DOMAIN f : OwnPath(z, p)})
Others(f, z) == Restrict(f, {p \in DOMAIN f : ~OwnPath(z, p)})
SameAlone(rest, res, alt) ==
    alt.out = res.out /\ alt.stats = res.stats /\ res.fs = alt.fs @@ rest
OneFault(calls) == {{}} \cup {{c} : c \in calls}
FinishInputs(f, z) ==
    UNION {[failAt : {k}, faults : OneFault({"iterdir", "unlink", "rmtree"}),
            bad : {B \in SUBSET Artifacts(extractall(f, Dest(z), zipContent[z].entries, k).fs,
                                          Dest(z)) : Cardinality(B) <= 1}] :
              k \in 0..Len(zipContent[z].entries)}
AfterFailure(r) == \E z0 \in DOMAIN outcome[r] : outcome[r][z0] # "ok"
C17_FailureDoesNotStopRun ==
    \A r \in Runs :
       /\ (args[r].entry = "extract_zip_files" /\ pc[r] = "done")
          => /\ DOMAIN outcome[r] = GlobZip(fs0)
             /\ stats[r].total_zips = Cardinality(GlobZip(fs0))
       /\ (mode = "run" /\ AfterFailure(r) /\ pc[r] = "extract")
          => \A z \in zips[r] :
                LET alone == Own(fs, z)
                    rest == Others(fs, z)
                IN  \A inp \in PrepareInputs :
                       LET res == Prepare(fs, stats[r], z, zipContent[z], args[r], env, inp)
                           alt == Prepare(alone, stats[r], z, zipContent[z], args[r], env, inp)
                       IN  SameAlone(rest, res, alt)
       /\ (mode = "run" /\ AfterFailure(r) /\ pc[r] = "opened")
          => LET z == cur[r]
                 alone == Own(fs, z)
                 rest == Others(fs, z)
             IN  \A inp \in [enc : Answers, faults : OneFault({"open", "rmtree"})] :
                    LET res == Validate(fs, stats[r], z, zipContent[z], args[r], env, inp)
                        alt == Validate(alone, stats[r], z, zipContent[z], args[r], env, inp)
                    IN  SameAlone(rest, res, alt)
       /\ (mode = "run" /\ AfterFailure(r) /\ pc[r] = "extractall")
          => LET z == cur[r]
                 alone == Own(fs, z)
                 rest == Others(fs, z)
             IN  \A inp \in FinishInputs(fs, z) :
                    LET res == Finish(fs, stats[r], z, zipContent[z], inp)
                        alt == Finish(alone, stats[r], z, zipContent[z], inp)
                    IN  SameAlone(rest, res, alt)

\* a.zip was rejected for an unsafe member and the loop went on: foo.zip is
\* extracted into root/foo and its archive file removed.
C17_LaterArchiveExtracted ==
    /\ aZip \in DOMAIN outcome[1] /\ outcome[1][aZip] = "unsafe"
    /\ ZipName(nmFoo) \in DOMAIN outcome[1] /\ outcome[1][ZipName(nmFoo)] = "ok"
    /\ GlobZip(fs0) = {aZip, ZipName(nmFoo)}
    /\ IsFile(fs, <<nmFoo, nmX>>) /\ ~Exists(fs, <<ZipName(nmFoo)>>)
    /\ stats[1].total_zips = 2 /\ stats[1].successful_extractions = 1

\* C18: in a run without a terminal (and without --no-confirm)
\* get_user_confirmation returns the default without reading an answer, and
\* every question of the pipeline is thereby declined: the step that finds
\* the destination of an archive existing, or the archive over the size
\* limit, leaves the tree as it was and does not open the archive; an
\* archive with an encrypted member is never extracted; and the pair whose
\* target exists is left where it is, only cleaned, and counted as ignored.
Asked(r) == mode = "run" /\ ~env.tty /\ ~args[r].no_confirm
C18_NoTerminalDeclines ==
    [][\A r \in Runs :
          Asked(r)
          => /\ \A ans \in Answers :
                   get_user_confirmation(stats[r], env.tty, ans)
                      = [stats |-> LogWarning(stats[r]), yes |-> FALSE]
             /\ \A z \in zips[r] :
                   (/\ pc[r] = "extract" /\ z \notin zips'[r]
                    /\ \/ Exists(fs, Dest(z))
                       \/ zipContent[z].size > args[r].max_size)
                   => /\ fs' = fs
                      /\ pc'[r] = "extract"
                      /\ z \in DOMAIN outcome'[r]
                      /\ outcome'[r][z] \in EarlyOuts \cup {"declined"}
             /\ \A z \in DOMAIN zipContent :
                   AnyEncrypted(zipContent[z].entries)
                   => /\ ~(pc'[r] = "extractall" /\ cur'[r] = z)
                      /\ z \in DOMAIN outcome'[r] => outcome'[r][z] # "ok"
             /\ \A P \in parents[r] :
                   (/\ Visited(r, P)
                    /\ \E c \in Children(fs, <<P>>) : Exists(fs, <<Last(c)>>))
                   => /\ pairs'[r][P] = "declined"
                      /\ \E bad \in SUBSET Artifacts(fs, <<P>>) :
                            fs' = remove_apple_system_files(fs, <<P>>, bad).fs
                      /\ stats'[r].dirs_ignored = stats[r].dirs_ignored + 1
                      /\ stats'[r].dirs_reorganized = stats[r].dirs_reorganized]_vars

\* main returned in a run without a terminal: the overwrite of the existing
\* root/a was declined by default, and a and a.zip are as they were.
C18_DeclinedByDefault ==
    /\ pc[1] = "returned" /\ ~env.tty /\ ~args[1].no_confirm
    /\ aZip \in DOMAIN outcome[1] /\ outcome[1][aZip] = "declined"
    /\ IsDir(fs0, Dest(aZip))
    /\ fs = fs0
    /\ stats[1].warnings >= 2

\* C19: when acquire_lock returns None, main logs a WARNING about the
\* missing lock, and in a run without a terminal it goes on into its try
\* block and processes the directory without a lock.
LockFailed(r) == pc[r] = "acquire" /\ ~env.lockable /\ pc'[r] # "acquire"
C19_ProceedsWithoutLock ==
    [][\A r \in Runs :
          LockFailed(r)
          => /\ stats'[r].warnings >= stats[r].warnings + 1
             /\ ~env.tty => pc'[r] = "try"]_vars

\* Without a terminal and without --no-confirm main returned 1 after the
\* lock could not be acquired: two WARNING entries, the archive in the
\* directory not touched.
C19_ReturnedWithoutProcessing ==
    /\ ~env.lockable /\ ~env.tty /\ ~args[1].no_confirm
    /\ pc[1] = "returned" /\ rc[1] = 1
    /\ stats[1].warnings = 2 /\ stats[1].errors = 0
    /\ GlobZip(fs0) # {}
    /\ fs = fs0 /\ stats[1].total_zips = 0

\* C20: a run interrupted (KeyboardInterrupt) while an archive is being
\* processed, after its destination directory was created and before the
\* archive was counted, has removed that destination when the process ends.
C20_InterruptRemovesDest ==
    \A r \in Runs :
       (pc[r] = "returned" /\ rc[r] = 130 /\ cur[r] # <<>>)
       => ~Exists(fs, Dest(cur[r]))

\* The run was interrupted between the creation of root/a and the
\* extraction of a.zip into it: the process ended with status 130, the lock
\* released, and root/a, which the run created, is still there beside a.zip.
C20_InterruptLeavesDest ==
    /\ pc[1] = "returned" /\ rc[1] = 130
    /\ cur[1] = aZip
    /\ ~Exists(fs0, Dest(aZip)) /\ IsDir(fs, Dest(aZip))
    /\ IsFile(fs, <<aZip>>)
    /\ Released(1)

\* C21: when the step that extracts and cleans an archive ends with the
\* destination directory existing and empty, the archive is counted as
\* failed (once) with an ERROR entry, and its file is still there; and an
\* archive with no member, or with artifacts only that were all removed,
\* ends so.
NothingReal(z) ==
    \A k \in 1..Len(zipContent[z].entries) :
       LET t == MemberTarget(Dest(z), zipContent[z].entries[k].fn)
       IN  \E i \in 2..Len(t) :
              t[i] \in APPLE_SYSTEM_DIRS \/ (i = Len(t) /\ is_apple_system_file(t[i]))
C21_EmptyDestCountedFailed ==
    [][\A r \in Runs :
          (pc[r] = "extractall" /\ Processed(r, cur[r]))
          => LET z == cur[r]
             IN  /\ (IsDir(fs', Dest(z)) /\ Children(fs', Dest(z)) = {})
                    => /\ outcome'[r][z] # "ok"
                       /\ stats'[r].failed_extractions = stats[r].failed_extractions + 1
                       /\ stats'[r].successful_extractions = stats[r].successful_extractions
                       /\ stats'[r].errors > stats[r].errors
                       /\ Exists(fs, <<z>>) => IsFile(fs', <<z>>)
                 /\ (NothingReal(z) /\ faults'[r] = faults[r])
                    => /\ outcome'[r][z] = "empty"
                       /\ IsDir(fs', Dest(z)) /\ Children(fs', Dest(z)) = {}]_vars

\* a.zip held artifacts only: they were extracted and removed, the archive
\* is counted as failed, and the empty root/a and a.zip are both there.
C21_JunkOnlyArchive ==
    /\ aZip \in DOMAIN outcome[1] /\ outcome[1][aZip] = "empty"
    /\ Len(zipContent[aZip].entries) >= 1
    /\ stats[1].files_removed + stats[1].dirs_removed >= 1
    /\ IsDir(fs, Dest(aZip)) /\ Children(fs, Dest(aZip)) = {}
    /\ IsFile(fs, <<aZip>>)
    /\ stats[1].failed_extractions = 1 /\ stats[1].errors = 1

\* C22: in a run of main in clean-only mode no step opens, extracts or
\* deletes an archive on account of extraction, none examines or moves a
\* directory, total_zips and dirs_examined stay 0, nothing is created or
\* changed in the tree, and an entry that disappears is an artifact: a
\* directory named in the fixed set, a regular file with one of the exact
\* artifact names or a name matching ^\._.*$, or an entry inside such a
\* directory.
NamedArtifact(f, p) ==
    \/ InArtifactDir(f, p)
    \/ f[p] = "dir" /\ Last(p) \in APPLE_SYSTEM_DIRS
    \/ f[p] = "file" /\ ExactArtifactName(Last(p))
C22_CleanOnlyRemovesArtifactsOnly ==
    [][\A r \in Runs :
          (mode = "run" /\ args[r].clean_only)
          => /\ pc'[r] \in {"main", "acquire", "try", "report", "finally", "returned"}
             /\ stats'[r].total_zips = 0 /\ stats'[r].dirs_examined = 0
             /\ stats'[r].successful_extractions = 0 /\ stats'[r].failed_extractions = 0
             /\ stats'[r].dirs_reorganized = 0 /\ stats'[r].dirs_ignored = 0
             /\ outcome'[r] = outcome[r] /\ pairs'[r] = pairs[r] /\ cur'[r] = cur[r]
             /\ DOMAIN fs' \subseteq DOMAIN fs
             /\ \A p \in DOMAIN fs :
                   IF p \in DOMAIN fs' THEN fs'[p] = fs[p] ELSE NamedArtifact(fs, p)]_vars

\* main --clean-only returned 0 on a directory that held the regular file
\* .DS_Store_bak: the file is gone and counted as a removed artifact.
C22_CleanOnlyDeletedPrefixName ==
    /\ args[1].clean_only
    /\ pc[1] = "returned" /\ rc[1] = 0
    /\ fs0 = (<<nmDSStoreBak>> :> "file")
    /\ fs = EmptyFS
    /\ stats[1].files_removed = 1 /\ stats[1].total_zips = 0

\* The ceilings --max-size may set (line 1176), in the unit of the sizes.
Ceilings == {0, MAX_ZIP_SIZE, 3}
\* The iteration of run r is past the size check of an archive larger than
\* the ceiling: the archive is about to be opened or is being extracted.
OversizedOpened(r) ==
    /\ pc[r] \in {"opened", "extractall"}
    /\ zipContent[cur[r]].size > args[r].max_size

\* C23 as stated: an archive larger than the ceiling is opened or extracted
\* only when interactive confirmation is enabled (--no-confirm was not given)
\* and the operator accepted the prompt, which takes a terminal.
C23_OversizedOnlyAfterAcceptedPrompt ==
    \A r \in Runs : OversizedOpened(r) => ~args[r].no_confirm /\ env.tty

\* C23: the size check precedes the opening of the archive, and an archive
\* larger than the ceiling, whatever --max-size made it, is opened or
\* extracted only when --no-confirm was given or the operator accepted the
\* prompt at a terminal; otherwise the iteration ends before the archive is
\* opened, with the tree as it was and the archive counted once, as failed.
C23_OversizedNeedsConsentOrNoConfirm ==
    \A r \in Runs :
       /\ OversizedOpened(r) => args[r].no_confirm \/ env.tty
       /\ (mode = "run" /\ pc[r] = "extract")
          => \A z \in zips[r] : \A inp \in PrepareInputs : \A ms \in Ceilings :
                LET a == [args[r] EXCEPT !.max_size = ms]
                    res == Prepare(fs, stats[r], z, zipContent[z], a, env, inp)
                    consent == a.no_confirm \/ (env.tty /\ inp.big)
                IN  (zipContent[z].size > ms /\ res.out \notin {"too_long", "stat_failed"})
                    => /\ res.stats.warnings > stats[r].warnings
                       /\ res.out = "too_large" <=> ~consent
                       /\ res.out = "go" => consent
                       /\ ~consent
                          => /\ res.fs = fs
                             /\ res.stats.failed_extractions = stats[r].failed_extractions + 1
                             /\ res.stats.successful_extractions = stats[r].successful_extractions
                             /\ res.stats.total_zips = stats[r].total_zips + 1

\* a.zip, larger than the ceiling, was extracted under --no-confirm with no
\* terminal: nobody was asked, one WARNING was logged.
C23_OversizedExtractedUnprompted ==
    /\ aZip \in DOMAIN outcome[1] /\ outcome[1][aZip] = "ok"
    /\ zipContent[aZip].size > args[1].max_size
    /\ args[1].no_confirm /\ ~env.tty
    /\ stats[1].warnings = 1
    /\ stats[1].successful_extractions = 1
    /\ ~Exists(fs, <<aZip>>)

\* The step of run r is a call of release_lock that follows main's own.
SecondRelease(r) == pc[r] = "returned" /\ pc'[r] = "released_again"

\* C24: release_lock called with no handle, or a second time with a handle
\* already released, has no effect: the lock stays as it was and no counter
\* nor log entry of the run's statistics changes.
C24_ReleaseIdempotent ==
    [][\A r \in Runs :
          SecondRelease(r)
          => /\ stats'[r] = stats[r]
             /\ lockOwner' = lockOwner
             /\ fdOpen' = fdOpen
             /\ lock_fd' = lock_fd]_vars

\* main ran on an empty directory with the lock held and released it; the
\* second release_lock on the closed descriptor logged a WARNING.
C24_SecondReleaseWarned ==
    /\ pc[1] = "released_again" /\ rc[1] = 0
    /\ fs0 = EmptyFS /\ ~env.tty /\ env.os_name = "posix"
    /\ lock_fd[1] = "fd" /\ ~fdOpen[1] /\ lockOwner = 0
    /\ stats[1].warnings = 1 /\ stats[1].errors = 0

\* The paths of f2 that f does not have.
Created(f, f2) == DOMAIN f2 \ DOMAIN f

\* C25: the integrity check, the encryption check and the path check of an
\* archive are over before any of its entries is written: from the creation
\* of the destination directory until the three checks have passed that
\* directory is empty, the step that opens and checks the archive creates
\* nothing, and when it ends the iteration (a check failed or the archive
\* could not be read) no entry has been written.
C25_ValidationBeforeWriting ==
    [][\A r \in Runs :
          /\ (pc[r] = "extract" /\ pc'[r] = "opened")
             => /\ Created(fs, fs') \subseteq {Dest(cur'[r])}
                /\ IsDir(fs', Dest(cur'[r]))
                /\ Children(fs', Dest(cur'[r])) = {}
          /\ pc[r] = "opened"
             => /\ Created(fs, fs') = {}
                /\ Descendants(fs', Dest(cur[r])) = {}
                /\ pc'[r] = "extractall"
                   => /\ fs' = fs
                      /\ testzip(zipContent[cur[r]].entries) = "ok"
                      /\ ~AnyUnsafe(zipContent[cur[r]].entries)]_vars

\* foo.zip failed the integrity check and a.zip, of two members, has passed
\* the three checks and is about to be extracted: neither destination holds
\* an entry.
C25_CheckedNothingWrittenYet ==
    /\ pc[1] = "extractall" /\ cur[1] = aZip
    /\ Len(zipContent[aZip].entries) = 2
    /\ IsDir(fs, Dest(aZip)) /\ Children(fs, Dest(aZip)) = {}
    /\ ZipName(nmFoo) \in DOMAIN outcome[1]
    /\ outcome[1][ZipName(nmFoo)] = "corrupted"
    /\ IsDir(fs, Dest(ZipName(nmFoo))) /\ Children(fs, Dest(ZipName(nmFoo))) = {}

\* Entry c of f is an OS metadata artifact: a file with a known name or a
\* name matching the sidecar pattern, or a directory with a known name.
JunkEntry(f, c) ==
    \/ f[c] = "file" /\ ExactArtifactName(Last(c))
    \/ f[c] = "dir" /\ Last(c) \in APPLE_SYSTEM_DIRS
\* The subdirectories of P that are no artifacts.
RealSubdirs(f, P) == {c \in Children(f, <<P>>) : f[c] = "dir" /\ ~JunkEntry(f, c)}
\* P holds artifacts, at least one, plus exactly one real subdirectory.
JunkPlusOne(f, P) ==
    /\ IsDir(f, <<P>>)
    /\ Cardinality(RealSubdirs(f, P)) = 1
    /\ Children(f, <<P>>) # RealSubdirs(f, P)
    /\ \A c \in Children(f, <<P>>) \ RealSubdirs(f, P) : JunkEntry(f, c)

\* C26: when the pass of reorganize_directories reaches a child P of the
\* target directory that holds only OS metadata artifacts plus exactly one
\* real subdirectory C, no call failing and no entry of the target directory
\* bearing C's name, P is cleaned and collapsed: C is then a directory of the
\* target directory, P is gone, and the pair is counted as examined and as
\* reorganized.
C26_JunkPlusOneCollapsed ==
    [][\A r \in Runs : \A P \in parents[r] :
          (/\ Passed(r, P)
           /\ JunkPlusOne(fs, P)
           /\ env.os_name = "posix"
           /\ faults'[r] = faults[r]
           /\ \A C \in RealSubdirs(fs, P) : Last(C) \notin RootNames(fs))
          => \A C \in RealSubdirs(fs, P) :
                /\ IsDir(fs', <<Last(C)>>)
                /\ ~Exists(fs', <<P>>)
                /\ stats'[r].dirs_examined = stats[r].dirs_examined + 1
                /\ stats'[r].dirs_reorganized = stats[r].dirs_reorganized + 1]_vars

\* reorganize_directories returned on a root whose only child a holds
\* .DS_Store and the directory foo: the tree is as it was, .DS_Store
\* included, and nothing was examined.
C26_JunkPlusOneLeftAlone ==
    /\ args[1].entry = "reorganize" /\ pc[1] = "done" /\ faults[1] = 0
    /\ fs0 = (<<nmA>> :> "dir") @@ (<<nmA, nmDSStore>> :> "file")
               @@ (<<nmA, nmFoo>> :> "dir")
    /\ fs = fs0
    /\ stats[1].dirs_examined = 0 /\ stats[1].dirs_reorganized = 0
    /\ stats[1].files_removed = 0

\* The chain root/a/foo/x, and the same beside an empty root/foo.
Chain == (<<nmA>> :> "dir") @@ (<<nmA, nmFoo>> :> "dir") @@ (<<nmA, nmFoo, nmX>> :> "dir")
ChainBesideFoo == Chain @@ (<<nmFoo>> :> "dir")

\* C27: one call of reorganize_directories collapses at most one level: a
\* directory moved up to the target directory during the pass is not itself
\* examined in the same pass, so that every directory the pass examines is
\* one the target directory held when the pass began, as it was then.
C27_MovedUpNeverExamined ==
    [][\A P \in parents[1] :
          Visited(1, P)
          => /\ IsDir(fs0, <<P>>)
             /\ Subtree(fs, <<P>>) = Subtree(fs0, <<P>>)]_vars

\* What holds of C27: one call of reorganize_directories reaches only the
\* names the target directory had when the pass began: a directory moved up under a
\* name no entry had then is neither examined nor collapsed in the same
\* pass, it is at the end what it was under its parent; so on root/a/foo/x,
\* no call failing, one pass yields root/foo/x with a removed and the second
\* pass yields root/x.
C27_OneLevelPerPass ==
    /\ (mode = "run" /\ pc[2] = "idle")
       => /\ parents[1] \subseteq RootNames(fs0)
          /\ DOMAIN pairs[1] \subseteq RootNames(fs0)
          /\ \A n \in RootNames(fs) \ RootNames(fs0) :
                \E q \in DOMAIN fs0 :
                   /\ Len(q) >= 2 /\ Last(q) = n /\ fs0[q] = "dir"
                   /\ Subtree(fs, <<n>>) = Subtree(fs0, q)
    /\ (fs0 = Chain /\ Sum(faults, Runs) = 0)
       => /\ pc[1] = "done"
             => /\ pairs[1] = (nmA :> "ok")
                /\ stats[1].dirs_examined = 1 /\ stats[1].dirs_reorganized = 1
          /\ (pc[1] = "done" /\ pc[2] \in {"idle", "reorganize"})
             => fs = (<<nmFoo>> :> "dir") @@ (<<nmFoo, nmX>> :> "dir")
          /\ pc[2] = "done"
             => /\ fs = (<<nmX>> :> "dir")
                /\ pairs[2] = (nmFoo :> "ok")

\* One pass on root/a/foo/x beside an empty root/foo, the overwrite
\* suppressed: foo was moved up over root/foo, then examined and collapsed
\* in the same pass, and only root/x is left.
C27_MovedUpExaminedInSamePass ==
    /\ fs0 = ChainBesideFoo
    /\ args[1].no_confirm /\ faults[1] = 0
    /\ pc[1] = "done" /\ pc[2] = "idle"
    /\ pairs[1] = (nmA :> "ok") @@ (nmFoo :> "ok")
    /\ stats[1].dirs_examined = 2 /\ stats[1].dirs_reorganized = 2
    /\ fs = (<<nmX>> :> "dir")

\* C28: extract_zip_files removes an archive file only when its extraction
\* succeeded: at every moment of the call, and so when it returns, every
\* archive the target directory held at the start is still a file there
\* unless its iteration ended in success; no step removes the archive of an
\* iteration that ends otherwise.
C28_ArchiveRemovedOnlyOnSuccess ==
    /\ \A r \in Runs :
          (mode = "run" /\ args[r].entry = "extract_zip_files" /\ pc[r] # "idle")
          => /\ \A z \in GlobZip(fs0) :
                   \/ IsFile(fs, <<z>>)
                   \/ z \in DOMAIN outcome[r] /\ outcome[r][z] = "ok"
             /\ \A z \in DOMAIN outcome[r] :
                   outcome[r][z] # "ok" => IsFile(fs, <<z>>)
             /\ Cardinality({z \in GlobZip(fs0) : ~Exists(fs, <<z>>)})
                   = stats[r].successful_extractions

\* extract_zip_files returned: a.zip was extracted and removed, foo.zip
\* failed its integrity check and is still there.
C28_FailedArchiveKept ==
    /\ pc[1] = "done" /\ args[1].entry = "extract_zip_files"
    /\ DOMAIN outcome[1] = {aZip, ZipName(nmFoo)}
    /\ outcome[1][aZip] = "ok" /\ ~Exists(fs, <<aZip>>)
    /\ outcome[1][ZipName(nmFoo)] = "corrupted" /\ IsFile(fs, <<ZipName(nmFoo)>>)
    /\ stats[1].successful_extractions = 1

\* C29: when extract_zip_files returns, each archive of the snapshot has been
\* counted once, in exactly one of the two outcome counters:
\* successful_extractions + failed_extractions = total_zips, and total_zips
\* is the number of archives found.
C29_EachArchiveCountedOnce ==
    \A r \in Runs :
       (mode = "run" /\ args[r].entry = "extract_zip_files" /\ pc[r] = "done")
       => /\ stats[r].total_zips = Cardinality(GlobZip(fs0))
          /\ stats[r].successful_extractions + stats[r].failed_extractions
                = stats[r].total_zips

\* extract_zip_files returned on a root holding only a.zip, which has a
\* member with an unsafe path: one archive, counted twice as failed.
C29_UnsafeCountedTwice ==
    /\ pc[1] = "done" /\ args[1].entry = "extract_zip_files" /\ faults[1] = 0
    /\ GlobZip(fs0) = {aZip}
    /\ AnyUnsafe(zipContent[aZip].entries)
    /\ outcome[1] = (aZip :> "unsafe")
    /\ stats[1].total_zips = 1
    /\ stats[1].successful_extractions = 0
    /\ stats[1].failed_extractions = 2

\* The branches that end the iteration of a pair without collapsing it.
IgnoredOuts ==
    {"too_long", "declined", "clear_failed", "move_failed", "not_empty", "rmdir_failed"}

\* C30: each pair the pass examines is counted in exactly one outcome
\* counter: between iterations, and so when reorganize_directories returns,
\* dirs_examined = dirs_reorganized + dirs_ignored, dirs_reorganized being
\* the number of pairs collapsed and dirs_ignored the number of those whose
\* iteration ended otherwise (path too long, overwrite declined, clear
\* failure, move failure, non-empty parent, parent-removal failure).  A
\* parent found non-empty after the move, which takes another process to
\* fill it, is checked on the step itself: it counts the pair as ignored.
C30_EachPairCountedOnce ==
    \A r \in Runs :
       (mode = "run" /\ args[r].entry = "reorganize" /\ pc[r] \in {"reorg", "done"})
       => /\ stats[r].dirs_examined = stats[r].dirs_reorganized + stats[r].dirs_ignored
          /\ stats[r].dirs_examined = Cardinality(DOMAIN pairs[r])
          /\ stats[r].dirs_reorganized
                = Cardinality({P \in DOMAIN pairs[r] : pairs[r][P] = "ok"})
          /\ stats[r].dirs_ignored
                = Cardinality({P \in DOMAIN pairs[r] : pairs[r][P] \in IgnoredOuts})
          /\ \A P \in RootNames(fs) :
                (IsDir(fs, <<P>>) /\ Children(fs, <<P>>) # {})
                => LET res == RemoveParent(fs, stats[r], P, [faults |-> {}], 0)
                   IN  /\ res.out = "not_empty" /\ res.fs = fs
                       /\ res.stats.dirs_ignored = stats[r].dirs_ignored + 1
                       /\ res.stats.dirs_reorganized = stats[r].dirs_reorganized
                       /\ res.stats.dirs_examined = stats[r].dirs_examined

\* reorganize_directories returned on root/a/foo beside root/foo, the
\* operator having declined the overwrite at the terminal: one pair examined,
\* counted as ignored.
C30_DeclinedCountedIgnored ==
    /\ pc[1] = "done" /\ args[1].entry = "reorganize"
    /\ env.tty /\ ~args[1].no_confirm
    /\ pairs[1] = (nmA :> "declined")
    /\ fs = fs0
    /\ stats[1].dirs_examined = 1
    /\ stats[1].dirs_ignored = 1 /\ stats[1].dirs_reorganized = 0

====
